---- MODULE Spec2Model ----
(***************************************************************************)
(* Model of the chess engine of games/chess.py (Kettle-os).                *)
(*                                                                         *)
(* A board is a sequence of 8 rows, each a sequence of 8 one-character     *)
(* strings; the source's b[y][x] (0-based) is b[y+1][x+1] here.  A square  *)
(* is <<x, y>> with 0-based coordinates, a move is <<from, to>>.           *)
(***************************************************************************)
EXTENDS Integers, Sequences, FiniteSets, TLC

\* ------------------------------------------------------------------------
\* Program constants
\* ------------------------------------------------------------------------
BOARD_SIZE == 8

WhitePieces == {"P", "N", "B", "R", "Q", "K"}
BlackPieces == {"p", "n", "b", "r", "q", "k"}
Pieces == WhitePieces \cup BlackPieces
Colors == {"white", "black"}

Coords == 0 .. (BOARD_SIZE - 1)
Squares == {<<x, y>> : x \in Coords, y \in Coords}

\* str.lower() on the piece letters the engine uses
Lower(p) ==
    CASE p = "P" -> "p" [] p = "N" -> "n" [] p = "B" -> "b"
      [] p = "R" -> "r" [] p = "Q" -> "q" [] p = "K" -> "k"
      [] OTHER -> p

\* an initial position with a second white king on d1
initial_board_two_kings ==
    << <<"r", "n", "b", "q", "k", "b", "n", "r">>,
       <<"p", "p", "p", "p", "p", "p", "p", "p">>,
       <<".", ".", ".", ".", ".", ".", ".", ".">>,
       <<".", ".", ".", ".", ".", ".", ".", ".">>,
       <<".", ".", ".", ".", ".", ".", ".", ".">>,
       <<".", ".", ".", ".", ".", ".", ".", ".">>,
       <<"P", "P", "P", "P", "P", "P", "P", "P">>,
       <<"R", "N", "B", "K", "K", "B", "N", "R">> >>

initial_board ==
    << <<"r", "n", "b", "q", "k", "b", "n", "r">>,
       <<"p", "p", "p", "p", "p", "p", "p", "p">>,
       <<".", ".", ".", ".", ".", ".", ".", ".">>,
       <<".", ".", ".", ".", ".", ".", ".", ".">>,
       <<".", ".", ".", ".", ".", ".", ".", ".">>,
       <<".", ".", ".", ".", ".", ".", ".", ".">>,
       <<"P", "P", "P", "P", "P", "P", "P", "P">>,
       <<"R", "N", "B", "Q", "K", "B", "N", "R">> >>

in_bounds(x, y) == 0 <= x /\ x < 8 /\ 0 <= y /\ y < 8

is_white(piece) == piece \in WhitePieces

is_black(piece) == piece \in BlackPieces

\* None is modelled by the string "none"
piece_color(piece) ==
    IF piece = "." THEN "none"
    ELSE IF is_white(piece) THEN "white" ELSE "black"

\* b[y][x]
Cell(b, x, y) == b[y + 1][x + 1]

\* The fixed-length loops of the source that collect moves or add values
\* are written as the concatenation, or the sum, of what each iteration
\* contributes, in the order of the iterations.
Cat4(ss) == (ss[1] \o ss[2]) \o (ss[3] \o ss[4])

Cat8(ss) ==
    ((ss[1] \o ss[2]) \o (ss[3] \o ss[4]))
    \o ((ss[5] \o ss[6]) \o (ss[7] \o ss[8]))

Sum8(ns) ==
    ((ns[1] + ns[2]) + (ns[3] + ns[4])) + ((ns[5] + ns[6]) + (ns[7] + ns[8]))

\* the k-th cell (k = 1 .. 64) of the scan `for y in range(8): for x in
\* range(8)`
ScanX(k) == (k - 1) % 8

ScanY(k) == (k - 1) \div 8

\* find_king: the first cell of the scan that holds the king; <<>> models None
find_king(b, color) ==
    LET target == IF color = "white" THEN "K" ELSE "k"
        found == {k \in 1 .. 64 : Cell(b, ScanX(k), ScanY(k)) = target}
    IN IF found = {} THEN <<>>
       ELSE LET k == CHOOSE k \in found : \A j \in found : k <= j
            IN <<ScanX(k), ScanY(k)>>

\* ------------------------------------------------------------------------
\* Move generation
\* ------------------------------------------------------------------------
KnightOffsets ==
    << <<1, 2>>, <<2, 1>>, <<2, -1>>, <<1, -2>>,
       <<-1, -2>>, <<-2, -1>>, <<-2, 1>>, <<-1, 2>> >>

DiagonalDirections == << <<1, 1>>, <<1, -1>>, <<-1, 1>>, <<-1, -1>> >>

OrthogonalDirections == << <<1, 0>>, <<-1, 0>>, <<0, 1>>, <<0, -1>> >>

\* for dx in (-1,0,1): for dy in (-1,0,1): skip (0,0)
KingOffsets ==
    << <<-1, -1>>, <<-1, 0>>, <<-1, 1>>, <<0, -1>>,
       <<0, 1>>, <<1, -1>>, <<1, 0>>, <<1, 1>> >>

PawnCaptureDx == << -1, 1 >>

\* pawn_moves with the two-step test moved out of the one-step branch
pawn_moves_jump(b, x, y, p) ==
    LET dir == IF is_white(p) THEN -1 ELSE 1
        start_row == IF is_white(p) THEN 6 ELSE 1
        ny == y + dir
        ny2 == y + dir * 2
        fwd == (IF in_bounds(x, ny) /\ Cell(b, x, ny) = "."
                THEN << <<(<<x, y>>), (<<x, ny>>)>> >>
                ELSE <<>>)
               \o (IF y = start_row /\ Cell(b, x, ny2) = "."
                   THEN << <<(<<x, y>>), (<<x, ny2>>)>> >>
                   ELSE <<>>)
        cap(dx) == LET cx == x + dx
                       cy == y + dir
                   IN IF in_bounds(cx, cy) /\ Cell(b, cx, cy) # "."
                         /\ piece_color(Cell(b, cx, cy)) # piece_color(p)
                      THEN << <<(<<x, y>>), (<<cx, cy>>)>> >>
                      ELSE <<>>
    IN fwd \o cap(PawnCaptureDx[1]) \o cap(PawnCaptureDx[2])

pawn_moves(b, x, y, p) ==
    LET dir == IF is_white(p) THEN -1 ELSE 1
        start_row == IF is_white(p) THEN 6 ELSE 1
        ny == y + dir
        ny2 == y + dir * 2
        fwd == IF in_bounds(x, ny) /\ Cell(b, x, ny) = "."
               THEN << <<(<<x, y>>), (<<x, ny>>)>> >>
                    \o (IF y = start_row /\ Cell(b, x, ny2) = "."
                        THEN << <<(<<x, y>>), (<<x, ny2>>)>> >>
                        ELSE <<>>)
               ELSE <<>>
        cap(dx) == LET cx == x + dx
                       cy == y + dir
                   IN IF in_bounds(cx, cy) /\ Cell(b, cx, cy) # "."
                         /\ piece_color(Cell(b, cx, cy)) # piece_color(p)
                      THEN << <<(<<x, y>>), (<<cx, cy>>)>> >>
                      ELSE <<>>
    IN fwd \o cap(PawnCaptureDx[1]) \o cap(PawnCaptureDx[2])

\* step_moves without the test of the destination's colour
step_moves_onto_own(b, x, y, p, offs) ==
    Cat8([i \in 1 .. 8 |->
            LET nx == x + offs[i][1]
                ny == y + offs[i][2]
            IN IF in_bounds(nx, ny)
               THEN << <<(<<x, y>>), (<<nx, ny>>)>> >>
               ELSE <<>>])

\* step_moves onto empty squares only
step_moves_no_capture(b, x, y, p, offs) ==
    Cat8([i \in 1 .. 8 |->
            LET nx == x + offs[i][1]
                ny == y + offs[i][2]
            IN IF in_bounds(nx, ny) /\ Cell(b, nx, ny) = "."
               THEN << <<(<<x, y>>), (<<nx, ny>>)>> >>
               ELSE <<>>])

\* the knight's and the king's loop over a tuple of 8 offsets
step_moves(b, x, y, p, offs) ==
    Cat8([i \in 1 .. 8 |->
            LET nx == x + offs[i][1]
                ny == y + offs[i][2]
            IN IF in_bounds(nx, ny)
                  /\ (Cell(b, nx, ny) = "."
                      \/ piece_color(Cell(b, nx, ny)) # piece_color(p))
               THEN << <<(<<x, y>>), (<<nx, ny>>)>> >>
               ELSE <<>>])

\* slide without the break after a capture
RECURSIVE slide_through(_, _, _, _, _, _, _, _)
slide_through(b, x, y, p, dx, dy, nx, ny) ==
    IF ~in_bounds(nx, ny) THEN <<>>
    ELSE IF Cell(b, nx, ny) = "."
            \/ piece_color(Cell(b, nx, ny)) # piece_color(p)
         THEN << <<(<<x, y>>), (<<nx, ny>>)>> >>
              \o slide_through(b, x, y, p, dx, dy, nx + dx, ny + dy)
         ELSE <<>>

\* slide leaving the loop after the first square
slide_one_step(b, x, y, p, dx, dy, nx, ny) ==
    IF ~in_bounds(nx, ny) THEN <<>>
    ELSE IF Cell(b, nx, ny) = "."
            \/ piece_color(Cell(b, nx, ny)) # piece_color(p)
         THEN << <<(<<x, y>>), (<<nx, ny>>)>> >>
         ELSE <<>>

\* the while loop of one sliding direction, entered at square (nx, ny)
RECURSIVE slide(_, _, _, _, _, _, _, _)
slide(b, x, y, p, dx, dy, nx, ny) ==
    IF ~in_bounds(nx, ny) THEN <<>>
    ELSE IF Cell(b, nx, ny) = "."
         THEN << <<(<<x, y>>), (<<nx, ny>>)>> >>
              \o slide(b, x, y, p, dx, dy, nx + dx, ny + dy)
         ELSE IF piece_color(Cell(b, nx, ny)) # piece_color(p)
              THEN << <<(<<x, y>>), (<<nx, ny>>)>> >>
              ELSE <<>>

\* the loop `for dx,dy in directions` over 4 directions
slide_moves(b, x, y, p, dirs) ==
    Cat4([i \in 1 .. 4 |->
            slide(b, x, y, p, dirs[i][1], dirs[i][2],
                  x + dirs[i][1], y + dirs[i][2])])

gen_piece_moves(b, x, y, p) ==
    LET p_low == Lower(p)
    IN IF p_low = "p" THEN pawn_moves(b, x, y, p)
       ELSE IF p_low = "n" THEN step_moves(b, x, y, p, KnightOffsets)
       ELSE IF p_low \in {"b", "r", "q"}
            THEN (IF p_low \in {"b", "q"}
                  THEN slide_moves(b, x, y, p, DiagonalDirections)
                  ELSE <<>>)
                 \o (IF p_low \in {"r", "q"}
                     THEN slide_moves(b, x, y, p, OrthogonalDirections)
                     ELSE <<>>)
       ELSE IF p_low = "k" THEN step_moves(b, x, y, p, KingOffsets)
       ELSE <<>>

\* gen_moves without the two tests of for_color
gen_moves_any_color(b, for_color) ==
    Cat8([i \in 1 .. 8 |->
            Cat8([j \in 1 .. 8 |->
                    LET p == b[i][j]
                    IN IF p = "." THEN <<>>
                       ELSE gen_piece_moves(b, j - 1, i - 1, p)])])

\* the double loop of gen_moves: rows y = 0 .. 7, and in each row the cells
\* x = 0 .. 7
gen_moves(b, for_color) ==
    Cat8([i \in 1 .. 8 |->
            Cat8([j \in 1 .. 8 |->
                    LET p == b[i][j]
                    IN IF p = "." THEN <<>>
                       ELSE IF for_color = "white" /\ ~is_white(p) THEN <<>>
                       ELSE IF for_color = "black" /\ ~is_black(p) THEN <<>>
                       ELSE gen_piece_moves(b, j - 1, i - 1, p)])])

\* ------------------------------------------------------------------------
\* The store of row lists.  A Python board is a list of 8 references to
\* row lists; `h` is the store (row address -> row contents, addresses
\* 1 .. Len(h)) and a board reference `br` is the 8 row addresses.  A board
\* value (8 rows) is itself a store whose rows sit at addresses 1 .. 8.
\* ------------------------------------------------------------------------
IdRef == [i \in 1 .. 8 |-> i]

Deref(h, br) == [i \in 1 .. Len(br) |-> h[br[i]]]

\* rows allocated by a call that no name refers to any longer are dropped
Release(h, n) == SubSeq(h, 1, n)

\* clone_board as a copy of the outer list only: b[:]
clone_board_shared(h, br) == [heap |-> h, ref |-> br]

\* [row[:] for row in b]: a fresh row, with the same cells, per row of b
clone_board(h, br) ==
    [heap |-> h \o Deref(h, br),
     ref |-> [i \in 1 .. Len(br) |-> Len(h) + i]]

\* ------------------------------------------------------------------------
\* Move application, check detection, legality
\* ------------------------------------------------------------------------
\* make_move writing into the board it was given: b2 = b
make_move_in_place(h, br, mv) ==
    LET x1 == mv[1][1]
        y1 == mv[1][2]
        x2 == mv[2][1]
        y2 == mv[2][2]
        p == h[br[y1 + 1]][x1 + 1]
        h1 == [h EXCEPT ![br[y1 + 1]][x1 + 1] = "."]
        h2 == IF Lower(p) = "p" /\ (y2 = 0 \/ y2 = 7)
              THEN [h1 EXCEPT ![br[y2 + 1]][x2 + 1] =
                                  IF is_white(p) THEN "Q" ELSE "q"]
              ELSE [h1 EXCEPT ![br[y2 + 1]][x2 + 1] = p]
    IN [heap |-> h2, ref |-> br]

\* make_move without b2[y1][x1] = '.'
make_move_keep_source(h, br, mv) ==
    LET x1 == mv[1][1]
        y1 == mv[1][2]
        x2 == mv[2][1]
        y2 == mv[2][2]
        c == clone_board(h, br)
        b2 == c.ref
        p == c.heap[b2[y1 + 1]][x1 + 1]
        h2 == IF Lower(p) = "p" /\ (y2 = 0 \/ y2 = 7)
              THEN [c.heap EXCEPT ![b2[y2 + 1]][x2 + 1] =
                                      IF is_white(p) THEN "Q" ELSE "q"]
              ELSE [c.heap EXCEPT ![b2[y2 + 1]][x2 + 1] = p]
    IN [heap |-> h2, ref |-> b2]

\* make_move promoting on rank 0 only
make_move_promote_rank0(h, br, mv) ==
    LET x1 == mv[1][1]
        y1 == mv[1][2]
        x2 == mv[2][1]
        y2 == mv[2][2]
        c == clone_board(h, br)
        b2 == c.ref
        p == c.heap[b2[y1 + 1]][x1 + 1]
        h1 == [c.heap EXCEPT ![b2[y1 + 1]][x1 + 1] = "."]
        h2 == IF Lower(p) = "p" /\ y2 = 0
              THEN [h1 EXCEPT ![b2[y2 + 1]][x2 + 1] =
                                  IF is_white(p) THEN "Q" ELSE "q"]
              ELSE [h1 EXCEPT ![b2[y2 + 1]][x2 + 1] = p]
    IN [heap |-> h2, ref |-> b2]

\* make_move promoting whatever piece arrives on rank 0 or rank 7
make_move_promote_any(h, br, mv) ==
    LET x1 == mv[1][1]
        y1 == mv[1][2]
        x2 == mv[2][1]
        y2 == mv[2][2]
        c == clone_board(h, br)
        b2 == c.ref
        p == c.heap[b2[y1 + 1]][x1 + 1]
        h1 == [c.heap EXCEPT ![b2[y1 + 1]][x1 + 1] = "."]
        h2 == IF y2 = 0 \/ y2 = 7
              THEN [h1 EXCEPT ![b2[y2 + 1]][x2 + 1] =
                                  IF is_white(p) THEN "Q" ELSE "q"]
              ELSE [h1 EXCEPT ![b2[y2 + 1]][x2 + 1] = p]
    IN [heap |-> h2, ref |-> b2]

make_move_h(h, br, mv) ==
    LET x1 == mv[1][1]
        y1 == mv[1][2]
        x2 == mv[2][1]
        y2 == mv[2][2]
        c == clone_board(h, br)
        b2 == c.ref
        p == c.heap[b2[y1 + 1]][x1 + 1]
        h1 == [c.heap EXCEPT ![b2[y1 + 1]][x1 + 1] = "."]
        h2 == IF Lower(p) = "p" /\ (y2 = 0 \/ y2 = 7)
              THEN [h1 EXCEPT ![b2[y2 + 1]][x2 + 1] =
                                  IF is_white(p) THEN "Q" ELSE "q"]
              ELSE [h1 EXCEPT ![b2[y2 + 1]][x2 + 1] = p]
    IN [heap |-> h2, ref |-> b2]

\* the board bd written out as 8 rows of 8 cells
Rows(bd) ==
    [i \in 1 .. 8 |->
       <<bd[i][1], bd[i][2], bd[i][3], bd[i][4],
         bd[i][5], bd[i][6], bd[i][7], bd[i][8]>>]

AsRows(bd) ==
    <<Rows(bd)[1], Rows(bd)[2], Rows(bd)[3], Rows(bd)[4],
      Rows(bd)[5], Rows(bd)[6], Rows(bd)[7], Rows(bd)[8]>>

\* make_move as a function of board values
make_move(b, mv) ==
    LET r == make_move_h(b, IdRef, mv) IN AsRows(Deref(r.heap, r.ref))

\* in_check over the moves of `color` itself
in_check_own_moves(b, color) ==
    LET kpos == find_king(b, color)
    IN IF kpos = <<>> THEN TRUE
       ELSE LET kx == kpos[1]
                ky == kpos[2]
                moves == gen_moves(b, color)
            IN \E i \in 1 .. Len(moves) :
                 moves[i][2][1] = kx /\ moves[i][2][2] = ky

\* in_check answering False when there is no king
in_check_no_king_false(b, color) ==
    LET kpos == find_king(b, color)
    IN IF kpos = <<>> THEN FALSE
       ELSE LET kx == kpos[1]
                ky == kpos[2]
                enemy == IF color = "white" THEN "black" ELSE "white"
                moves == gen_moves(b, enemy)
            IN \E i \in 1 .. Len(moves) :
                 moves[i][2][1] = kx /\ moves[i][2][2] = ky

\* in_check comparing the file of the destination only
in_check_same_file(b, color) ==
    LET kpos == find_king(b, color)
    IN IF kpos = <<>> THEN TRUE
       ELSE LET kx == kpos[1]
                enemy == IF color = "white" THEN "black" ELSE "white"
                moves == gen_moves(b, enemy)
            IN \E i \in 1 .. Len(moves) : moves[i][2][1] = kx

\* the loop over the enemy's moves returns True at the first move whose
\* destination is the king's square
in_check(b, color) ==
    LET kpos == find_king(b, color)
    IN IF kpos = <<>> THEN TRUE
       ELSE LET kx == kpos[1]
                ky == kpos[2]
                enemy == IF color = "white" THEN "black" ELSE "white"
                moves == gen_moves(b, enemy)
            IN \E i \in 1 .. Len(moves) :
                 moves[i][2][1] = kx /\ moves[i][2][2] = ky

\* the loop body of legal_moves testing the position before the move
legal_step_before(st, br, color, mv) ==
    LET r == make_move_h(st.heap, br, mv)
    IN [heap |-> Release(r.heap, Len(st.heap)),
        leg |-> IF ~in_check(Deref(st.heap, br), color)
                THEN Append(st.leg, mv)
                ELSE st.leg]

\* one iteration of the for loop of legal_moves; st holds the store and the
\* list leg
legal_step(st, br, color, mv) ==
    LET r == make_move_h(st.heap, br, mv)
    IN [heap |-> Release(r.heap, Len(st.heap)),
        leg |-> IF ~in_check(Deref(r.heap, r.ref), color)
                THEN Append(st.leg, mv)
                ELSE st.leg]

\* iterations lo .. hi of that loop
RECURSIVE legal_range(_, _, _, _, _, _)
legal_range(st, br, color, moves, lo, hi) ==
    IF lo > hi THEN st
    ELSE IF lo = hi THEN legal_step(st, br, color, moves[lo])
    ELSE LET mid == (lo + hi) \div 2
             left == legal_range(st, br, color, moves, lo, mid)
         IN IF Len(left.leg) >= 0   \* the first half is run first
            THEN legal_range(left, br, color, moves, mid + 1, hi)
            ELSE left

\* legal_moves returning every pseudo-legal move
legal_moves_unfiltered(h, br, color) ==
    [heap |-> h, leg |-> gen_moves(Deref(h, br), color)]

legal_moves_h(h, br, color) ==
    LET moves == gen_moves(Deref(h, br), color)
    IN legal_range([heap |-> h, leg |-> <<>>], br, color, moves,
                   1, Len(moves))

\* legal_moves as a function of board values
legal_moves(b, color) == legal_moves_h(b, IdRef, color).leg

\* ------------------------------------------------------------------------
\* Evaluation and search
\* ------------------------------------------------------------------------
\* VAL.get(p.upper(), 0)
VAL(p) ==
    CASE Lower(p) = "p" -> 100 [] Lower(p) = "n" -> 320
      [] Lower(p) = "b" -> 330 [] Lower(p) = "r" -> 500
      [] Lower(p) = "q" -> 900 [] Lower(p) = "k" -> 20000
      [] OTHER -> 0

\* eval_board adding the value of every piece, Black's too
eval_board_unsigned(b) ==
    Sum8([i \in 1 .. 8 |->
            Sum8([j \in 1 .. 8 |->
                    LET p == b[i][j]
                    IN IF p # "." THEN VAL(p) ELSE 0])])

eval_board(b) ==
    Sum8([i \in 1 .. 8 |->
            Sum8([j \in 1 .. 8 |->
                    LET p == b[i][j]
                    IN IF p # "."
                       THEN VAL(p) * (IF is_white(p) THEN 1 ELSE -1)
                       ELSE 0])])

MateScore == 999999

Infinity == 10 ^ 9

Max(a, c) == IF a >= c THEN a ELSE c

Min(a, c) == IF a <= c THEN a ELSE c

\* The search over the store; the result's mv is <<>> for None.  The state
\* st of a move loop holds the store, the window bound the loop updates, the
\* best value and move so far, and whether the loop has hit its break.
RECURSIVE minimax_h(_, _, _, _, _, _)

\* the white loop keeping the lower value
white_step_minimizing(st, br, depth, beta, mv) ==
    IF st.done THEN st
    ELSE LET r == make_move_h(st.heap, br, mv)
             sub == minimax_h(r.heap, r.ref, depth - 1, "black",
                              st.alpha, beta)
             val == sub.val
             better == val < st.val \/ st.mv = <<>>
             alpha2 == Max(st.alpha, val)
         IN [heap |-> Release(sub.heap, Len(st.heap)),
             alpha |-> alpha2,
             val |-> IF better THEN val ELSE st.val,
             mv |-> IF better THEN mv ELSE st.mv,
             done |-> beta <= alpha2]

\* the white loop with val >= maxv in place of val > maxv
white_step_last_best(st, br, depth, beta, mv) ==
    IF st.done THEN st
    ELSE LET r == make_move_h(st.heap, br, mv)
             sub == minimax_h(r.heap, r.ref, depth - 1, "black",
                              st.alpha, beta)
             val == sub.val
             better == val >= st.val
             alpha2 == Max(st.alpha, val)
         IN [heap |-> Release(sub.heap, Len(st.heap)),
             alpha |-> alpha2,
             val |-> IF better THEN val ELSE st.val,
             mv |-> IF better THEN mv ELSE st.mv,
             done |-> beta <= alpha2]

\* the white loop recording a move only when it raises alpha
white_step_above_alpha(st, br, depth, beta, mv) ==
    IF st.done THEN st
    ELSE LET r == make_move_h(st.heap, br, mv)
             sub == minimax_h(r.heap, r.ref, depth - 1, "black",
                              st.alpha, beta)
             val == sub.val
             better == val > st.val
             alpha2 == Max(st.alpha, val)
         IN [heap |-> Release(sub.heap, Len(st.heap)),
             alpha |-> alpha2,
             val |-> IF better THEN val ELSE st.val,
             mv |-> IF val > st.alpha THEN mv ELSE st.mv,
             done |-> beta <= alpha2]

\* one iteration of the loop of the white branch
white_step(st, br, depth, beta, mv) ==
    IF st.done THEN st
    ELSE LET r == make_move_h(st.heap, br, mv)
             sub == minimax_h(r.heap, r.ref, depth - 1, "black",
                              st.alpha, beta)
             val == sub.val
             better == val > st.val
             alpha2 == Max(st.alpha, val)
         IN [heap |-> Release(sub.heap, Len(st.heap)),
             alpha |-> alpha2,
             val |-> IF better THEN val ELSE st.val,
             mv |-> IF better THEN mv ELSE st.mv,
             done |-> beta <= alpha2]

\* the black loop leaving at the first move that lowers minv
black_step_cut_on_improve(st, br, depth, alpha, mv) ==
    IF st.done THEN st
    ELSE LET r == make_move_h(st.heap, br, mv)
             sub == minimax_h(r.heap, r.ref, depth - 1, "white",
                              alpha, st.beta)
             val == sub.val
             better == val < st.val
             beta2 == Min(st.beta, val)
         IN [heap |-> Release(sub.heap, Len(st.heap)),
             beta |-> beta2,
             val |-> IF better THEN val ELSE st.val,
             mv |-> IF better THEN mv ELSE st.mv,
             done |-> better]

\* one iteration of the loop of the black branch
black_step(st, br, depth, alpha, mv) ==
    IF st.done THEN st
    ELSE LET r == make_move_h(st.heap, br, mv)
             sub == minimax_h(r.heap, r.ref, depth - 1, "white",
                              alpha, st.beta)
             val == sub.val
             better == val < st.val
             beta2 == Min(st.beta, val)
         IN [heap |-> Release(sub.heap, Len(st.heap)),
             beta |-> beta2,
             val |-> IF better THEN val ELSE st.val,
             mv |-> IF better THEN mv ELSE st.mv,
             done |-> beta2 <= alpha]

\* iterations lo .. hi of the move loop of `color`; bound is the window
\* bound the loop leaves alone (beta for White, alpha for Black)
RECURSIVE search_range(_, _, _, _, _, _, _, _)
search_range(st, br, depth, color, bound, moves, lo, hi) ==
    IF lo > hi THEN st
    ELSE IF lo = hi
         THEN IF color = "white"
              THEN white_step(st, br, depth, bound, moves[lo])
              ELSE black_step(st, br, depth, bound, moves[lo])
    ELSE LET mid == (lo + hi) \div 2
             left == search_range(st, br, depth, color, bound, moves,
                                  lo, mid)
         IN IF left.done THEN left
            ELSE search_range(left, br, depth, color, bound, moves,
                              mid + 1, hi)

\* minimax with the two mate scores exchanged
minimax_swapped_mate(h, br, depth, color, alpha, beta) ==
    IF depth = 0
    THEN [heap |-> h, val |-> eval_board(Deref(h, br)), mv |-> <<>>]
    ELSE LET lm == legal_moves_h(h, br, color)
             moves == lm.leg
         IN IF moves = <<>>
            THEN IF in_check(Deref(lm.heap, br), color)
                 THEN [heap |-> lm.heap,
                       val |-> IF color = "white" THEN MateScore
                               ELSE -MateScore,
                       mv |-> <<>>]
                 ELSE [heap |-> lm.heap, val |-> 0, mv |-> <<>>]
            ELSE IF color = "white"
                 THEN LET st == search_range(
                                  [heap |-> lm.heap, alpha |-> alpha,
                                   val |-> -Infinity, mv |-> <<>>,
                                   done |-> FALSE],
                                  br, depth, color, beta, moves,
                                  1, Len(moves))
                      IN [heap |-> st.heap, val |-> st.val, mv |-> st.mv]
                 ELSE LET st == search_range(
                                  [heap |-> lm.heap, beta |-> beta,
                                   val |-> Infinity, mv |-> <<>>,
                                   done |-> FALSE],
                                  br, depth, color, alpha, moves,
                                  1, Len(moves))
                      IN [heap |-> st.heap, val |-> st.val, mv |-> st.mv]

\* minimax testing for an empty move list before it tests depth == 0
minimax_terminal_first(h, br, depth, color, alpha, beta) ==
    LET lm == legal_moves_h(h, br, color)
        moves == lm.leg
    IN IF moves = <<>>
       THEN IF in_check(Deref(lm.heap, br), color)
            THEN [heap |-> lm.heap,
                  val |-> IF color = "white" THEN -MateScore
                          ELSE MateScore,
                  mv |-> <<>>]
            ELSE [heap |-> lm.heap, val |-> 0, mv |-> <<>>]
       ELSE IF depth = 0
            THEN [heap |-> h, val |-> eval_board(Deref(h, br)), mv |-> <<>>]
            ELSE IF color = "white"
                 THEN LET st == search_range(
                                  [heap |-> lm.heap, alpha |-> alpha,
                                   val |-> -Infinity, mv |-> <<>>,
                                   done |-> FALSE],
                                  br, depth, color, beta, moves,
                                  1, Len(moves))
                      IN [heap |-> st.heap, val |-> st.val, mv |-> st.mv]
                 ELSE LET st == search_range(
                                  [heap |-> lm.heap, beta |-> beta,
                                   val |-> Infinity, mv |-> <<>>,
                                   done |-> FALSE],
                                  br, depth, color, alpha, moves,
                                  1, Len(moves))
                      IN [heap |-> st.heap, val |-> st.val, mv |-> st.mv]

minimax_h(h, br, depth, color, alpha, beta) ==
    IF depth = 0
    THEN [heap |-> h, val |-> eval_board(Deref(h, br)), mv |-> <<>>]
    ELSE LET lm == legal_moves_h(h, br, color)
             moves == lm.leg
         IN IF moves = <<>>
            THEN IF in_check(Deref(lm.heap, br), color)
                 THEN [heap |-> lm.heap,
                       val |-> IF color = "white" THEN -MateScore
                               ELSE MateScore,
                       mv |-> <<>>]
                 ELSE [heap |-> lm.heap, val |-> 0, mv |-> <<>>]
            ELSE IF color = "white"
                 THEN LET st == search_range(
                                  [heap |-> lm.heap, alpha |-> alpha,
                                   val |-> -Infinity, mv |-> <<>>,
                                   done |-> FALSE],
                                  br, depth, color, beta, moves,
                                  1, Len(moves))
                      IN [heap |-> st.heap, val |-> st.val, mv |-> st.mv]
                 ELSE LET st == search_range(
                                  [heap |-> lm.heap, beta |-> beta,
                                   val |-> Infinity, mv |-> <<>>,
                                   done |-> FALSE],
                                  br, depth, color, alpha, moves,
                                  1, Len(moves))
                      IN [heap |-> st.heap, val |-> st.val, mv |-> st.mv]

\* minimax as a function of board values: <<score, move>>
minimax(b, depth, color, alpha, beta) ==
    LET r == minimax_h(b, IdRef, depth, color, alpha, beta)
    IN <<r.val, r.mv>>

\* ------------------------------------------------------------------------
\* Input boards
\* ------------------------------------------------------------------------
EmptyRow == <<".", ".", ".", ".", ".", ".", ".", ".">>

EmptyBoard == [i \in 1 .. 8 |-> EmptyRow]

Place(b, sq, p) == [b EXCEPT ![sq[2] + 1][sq[1] + 1] = p]

\* pawns of both sides one step from promotion, with pieces to capture
PromotionBoard ==
    << <<"n", ".", "r", ".", ".", ".", ".", "k">>,
       <<".", "P", ".", ".", ".", ".", ".", ".">>,
       EmptyRow, EmptyRow, EmptyRow, EmptyRow,
       <<".", ".", ".", ".", ".", ".", "p", ".">>,
       <<"K", ".", ".", ".", ".", "B", ".", "N">> >>

\* a white rook pinned on the e-file, a white knight free to move
PinBoard ==
    << <<"k", ".", ".", ".", "r", ".", ".", ".">>,
       EmptyRow, EmptyRow, EmptyRow, EmptyRow,
       <<".", ".", ".", ".", "R", ".", ".", ".">>,
       <<"p", ".", ".", ".", ".", ".", ".", ".">>,
       <<".", "N", ".", ".", "K", ".", ".", ".">> >>

\* the white king checked by the queen; the bishop can interpose
CheckBoard ==
    << <<"k", ".", ".", ".", ".", ".", ".", ".">>,
       EmptyRow, EmptyRow,
       <<".", ".", ".", ".", "q", ".", ".", ".">>,
       <<".", ".", ".", ".", ".", ".", ".", "n">>,
       <<".", ".", "B", ".", ".", ".", ".", ".">>,
       <<".", ".", ".", "P", ".", "P", ".", ".">>,
       <<".", ".", ".", ".", "K", ".", ".", ".">> >>

\* Black to move has no legal move and is not in check
StalemateBoard ==
    << <<".", ".", ".", ".", ".", ".", ".", "k">>,
       <<".", ".", ".", ".", ".", "K", ".", ".">>,
       <<".", ".", ".", ".", ".", ".", "Q", ".">>,
       EmptyRow, EmptyRow, EmptyRow, EmptyRow, EmptyRow >>

\* no white king on the board
NoKingBoard ==
    << <<".", ".", ".", "k", ".", ".", ".", ".">>,
       <<".", ".", ".", ".", ".", ".", "P", ".">>,
       EmptyRow,
       <<".", "R", ".", ".", ".", "b", ".", ".">>,
       EmptyRow, EmptyRow,
       <<".", ".", "p", ".", ".", ".", ".", ".">>,
       <<".", ".", ".", ".", ".", ".", ".", ".">> >>

\* the sparse positions
SeedBoards ==
    {PromotionBoard, PinBoard, CheckBoard, StalemateBoard, NoKingBoard}

\* Black to move is checkmated on its back rank
BlackMatedBoard ==
    << <<".", ".", ".", ".", "R", ".", "k", ".">>,
       <<".", ".", ".", ".", ".", "p", "p", "p">>,
       EmptyRow, EmptyRow, EmptyRow, EmptyRow, EmptyRow,
       <<".", ".", ".", ".", ".", ".", "K", ".">> >>

\* White to move is checkmated on its back rank
WhiteMatedBoard ==
    << <<".", ".", ".", ".", ".", ".", "k", ".">>,
       EmptyRow, EmptyRow, EmptyRow, EmptyRow, EmptyRow,
       <<".", ".", ".", ".", ".", "P", "P", "P">>,
       <<".", ".", ".", ".", "r", ".", "K", ".">> >>

\* no black king on the board
NoBlackKingBoard ==
    << EmptyRow,
       <<"p", ".", ".", ".", ".", ".", ".", ".">>,
       <<".", ".", ".", ".", ".", ".", "n", ".">>,
       <<".", ".", ".", "Q", ".", ".", ".", ".">>,
       EmptyRow, EmptyRow, EmptyRow,
       <<".", ".", ".", ".", "K", ".", ".", ".">> >>

\* the positions the search is called on: the sparse positions, the mates
\* and the positions without a king
SearchBoards ==
    SeedBoards \cup {BlackMatedBoard, WhiteMatedBoard, NoBlackKingBoard}

SeqRange(s) == {s[i] : i \in 1 .. Len(s)}

PseudoMoves(bd) ==
    SeqRange(gen_moves(bd, "white")) \cup SeqRange(gen_moves(bd, "black"))

\* the line 1. f3 e5 2. g4 Qh4 as (x1, y1) -> (x2, y2) moves
FoolsMateLine ==
    << <<(<<5, 6>>), (<<5, 5>>)>>, <<(<<4, 1>>), (<<4, 3>>)>>,
       <<(<<6, 6>>), (<<6, 4>>)>>, <<(<<3, 0>>), (<<7, 4>>)>> >>

\* the board after the first n moves of a line played from the initial
\* position (n <= 4)
LineBoard(line, n) ==
    LET b1 == make_move(initial_board, line[1])
        b2 == make_move(b1, line[2])
        b3 == make_move(b2, line[3])
        b4 == make_move(b3, line[4])
    IN <<initial_board, b1, b2, b3, b4>>[n + 1]

FoolsMateBoard == LineBoard(FoolsMateLine, 4)

\* the standard initial position, the position after 1. f3 e5 2. g4 Qh4, a
\* sparse position, or a position one pseudo-legal move away from a sparse position (the boards legal_moves
\* hands to in_check)
EngineBoards ==
    {initial_board, FoolsMateBoard} \cup SeedBoards
    \cup UNION {{make_move(s, m) : m \in PseudoMoves(s)} : s \in SeedBoards}

Abs(n) == IF n < 0 THEN -n ELSE n

\* how far, in files, an arbitrary move handed to make_move may reach
MoveSpan == 0

\* moves handed to make_move: every pseudo-legal move of either side, and
\* moves of any in-bounds shape from an occupied square or a square of the
\* long diagonal
MoveInputs(bd) ==
    LET From == {s \in Squares : Cell(bd, s[1], s[2]) # "." \/ s[1] = s[2]}
    IN PseudoMoves(bd)
       \cup {m \in From \X Squares : Abs(m[2][1] - m[1][1]) <= MoveSpan}

\* how far from the probed piece, in files and ranks, a second piece stands
ProbeRadius == 3

\* the second piece of a probe position: of either colour, a rook among
\* them
CompanionPieces == {"N", "R", "p"}

\* the squares near s, and s itself
Near(s) ==
    {t \in Squares : /\ Abs(t[1] - s[1]) <= ProbeRadius
                     /\ Abs(t[2] - s[2]) <= ProbeRadius}

\* piece p on square s, alone (t = s) or with the second piece q on t
ProbeBoard(s, p, t, q) ==
    IF t = s THEN Place(EmptyBoard, s, p)
    ELSE Place(Place(EmptyBoard, s, p), t, q)

\* the deepest search called
MaxDepth == 2

\* the windows minimax is called with: the full window of the game loop, and
\* windows a recursive call can receive
Windows == {<<-Infinity, Infinity>>, <<-100, 100>>, <<0, 0>>}

\* ------------------------------------------------------------------------
\* State: the store, the caller's board, the last engine call, and the
\* locals of the run loop of each game
\* ------------------------------------------------------------------------
VARIABLES
    heap,    \* the store of row lists
    b,       \* the caller's board: 8 row addresses
    b0,      \* the caller's board, as a value, when it was passed in
    op,      \* the engine function called, "none" before the call
    args,    \* its arguments other than the board
    ret,     \* what it returned (a board is returned as 8 row addresses)
    chess,   \* the locals of run in games/chess.py, <<>> outside the game
    volfied, \* the locals of run in games/volfied.py, <<>> outside the game
    snake    \* the locals of run in games/snake.py, <<>> outside the game

vars == <<heap, b, b0, op, args, ret, chess, volfied, snake>>

\* the variables of the engine calls and those of the games
engine == <<heap, b, b0, op, args, ret>>
games == <<chess, volfied, snake>>

board == Deref(heap, b)

InitWith(bd) ==
    /\ heap = bd
    /\ b = IdRef
    /\ b0 = bd
    /\ op = "none"
    /\ args = <<>>
    /\ ret = <<>>
    /\ chess = <<>>
    /\ volfied = <<>>
    /\ snake = <<>>

Init == \E bd \in EngineBoards : InitWith(bd)

CallGenMoves ==
    /\ op = "none"
    /\ \E c \in Colors :
         /\ op' = "gen_moves"
         /\ args' = <<c>>
         /\ ret' = gen_moves(board, c)
    /\ UNCHANGED <<heap, b, b0, games>>

\* gen_piece_moves is called with p = b[y][x] of an occupied square
CallGenPieceMoves ==
    /\ op = "none"
    /\ \E sq \in Squares :
         /\ Cell(board, sq[1], sq[2]) # "."
         /\ op' = "gen_piece_moves"
         /\ args' = sq
         /\ ret' = gen_piece_moves(board, sq[1], sq[2],
                                   Cell(board, sq[1], sq[2]))
    /\ UNCHANGED <<heap, b, b0, games>>

CallInCheck ==
    /\ op = "none"
    /\ \E c \in Colors :
         /\ op' = "in_check"
         /\ args' = <<c>>
         /\ ret' = in_check(board, c)
    /\ UNCHANGED <<heap, b, b0, games>>

CallLegalMoves ==
    /\ op = "none"
    /\ \E c \in Colors :
         LET r == legal_moves_h(heap, b, c)
         IN /\ op' = "legal_moves"
            /\ args' = <<c>>
            /\ ret' = r.leg
            /\ heap' = r.heap
    /\ UNCHANGED <<b, b0, games>>

CallMakeMove ==
    /\ op = "none"
    /\ \E mv \in MoveInputs(board) :
         LET r == make_move_h(heap, b, mv)
         IN /\ op' = "make_move"
            /\ args' = mv
            /\ ret' = r.ref
            /\ heap' = r.heap
    /\ UNCHANGED <<b, b0, games>>

CallEvalBoard ==
    /\ op = "none"
    /\ op' = "eval_board"
    /\ args' = <<>>
    /\ ret' = eval_board(board)
    /\ UNCHANGED <<heap, b, b0, games>>

\* a call of minimax: the game loop's, or one of the recursion's
CallMinimax ==
    /\ op = "none"
    /\ \E c \in Colors, depth \in 0 .. MaxDepth, w \in Windows :
         \E r \in {minimax_h(heap, b, depth, c, w[1], w[2])} :
            /\ op' = "minimax"
            /\ args' = <<depth, c, w[1], w[2]>>
            /\ ret' = <<r.val, r.mv>>
            /\ heap' = r.heap
    /\ UNCHANGED <<b, b0, games>>

\* the same call of minimax once more, on the store the first call left;
\* ret keeps the first result and gets the second
CallMinimaxAgain ==
    /\ op = "minimax"
    /\ \E r \in {minimax_h(heap, b, args[1], args[2], args[3], args[4])} :
          /\ op' = "minimax_again"
          /\ ret' = <<ret, <<r.val, r.mv>> >>
          /\ heap' = r.heap
    /\ UNCHANGED <<b, b0, args, games>>

Next ==
    \/ CallGenMoves
    \/ CallGenPieceMoves
    \/ CallInCheck
    \/ CallLegalMoves
    \/ CallMakeMove
    \/ CallEvalBoard

\* the engine functions on the standard initial position, on sparse
\* positions and on the positions one move away from these
Spec == Init /\ [][Next]_vars

\* gen_piece_moves on a piece of any kind on any square
InitPiece ==
    \E s \in Squares, p \in Pieces :
      \E t \in Near(s), q \in CompanionPieces :
        InitWith(ProbeBoard(s, p, t, q))

NextPiece == CallGenPieceMoves

SpecPiece == InitPiece /\ [][NextPiece]_vars

\* every engine function that receives a board, the search included, on the
\* sparse positions, the mates and the positions without a king
InitSearch == \E bd \in SearchBoards : InitWith(bd)

NextSearch ==
    \/ CallGenMoves
    \/ CallInCheck
    \/ CallLegalMoves
    \/ CallMakeMove
    \/ CallMinimax

SpecSearch == InitSearch /\ [][NextSearch]_vars

\* minimax called twice with the same arguments
NextRepeat ==
    \/ CallMinimax
    \/ CallMinimaxAgain

\* on the positions with both kings
InitRepeat ==
    \E bd \in {PinBoard, CheckBoard, StalemateBoard, WhiteMatedBoard} :
      InitWith(bd)

SpecRepeat == InitRepeat /\ [][NextRepeat]_vars

\* ------------------------------------------------------------------------
\* Properties of the engine calls
\* ------------------------------------------------------------------------
KingOf(c) == IF c = "white" THEN "K" ELSE "k"

QueenOf(p) == IF is_white(p) THEN "Q" ELSE "q"

Enemy(c) == IF c = "white" THEN "black" ELSE "white"

KingSquares(bd, c) == {s \in Squares : Cell(bd, s[1], s[2]) = KingOf(c)}

Destinations(ms) == {ms[i][2] : i \in 1 .. Len(ms)}

\* the board a call of make_move returned
Returned == Deref(heap, ret)

\* the entries of g at the indices in Keep, in the order of g
Filtered(g, Keep) ==
    [k \in 1 .. Cardinality(Keep) |->
       g[CHOOSE i \in Keep : Cardinality({j \in Keep : j <= i}) = k]]

\* C1: legal_moves(board, side) is gen_moves(board, side) with exactly the
\* moves m removed for which in_check(make_move(board, m), side) holds, the
\* others kept in their order.
LegalMovesFilterGenMoves ==
    op = "legal_moves" =>
      LET c == args[1]
          g == gen_moves(b0, c)
          Keep == {i \in 1 .. Len(g) : ~in_check(make_move(b0, g[i]), c)}
      IN ret = Filtered(g, Keep)

\* legal_moves dropped some pseudo-legal moves and kept others
LegalMovesDroppedAndKept ==
    /\ op = "legal_moves"
    /\ Len(ret) > 0
    /\ Len(ret) < Len(gen_moves(b0, args[1]))

\* C2: with the king of `side` on the board, in_check(board, side) is true
\* if and only if some move of gen_moves(board, opposing side) has the
\* king's square as its destination.
InCheckIffKingSquareAttacked ==
    (op = "in_check" /\ KingSquares(b0, args[1]) # {}) =>
      (ret <=> (Destinations(gen_moves(b0, Enemy(args[1])))
                \cap KingSquares(b0, args[1]) # {}))

\* in_check answered True for a king that is on the board
InCheckTrueWithKing ==
    /\ op = "in_check"
    /\ KingSquares(b0, args[1]) # {}
    /\ ret = TRUE

\* C3: on a board without a king of `side`, in_check(board, side) returns
\* True, whatever else is on the board.
InCheckTrueWithoutKing ==
    (op = "in_check" /\ KingSquares(b0, args[1]) = {}) => ret = TRUE

\* in_check was called for the side without a king on a board where that
\* side has other pieces
InCheckCalledWithoutKing ==
    /\ op = "in_check"
    /\ KingSquares(b0, args[1]) = {}
    /\ \E s \in Squares : piece_color(Cell(b0, s[1], s[2])) = args[1]
    /\ ret = TRUE

\* C5: for a move (from, to) with from # to, the board make_move returns has
\* Empty at `from`, the piece that stood on `from` (or its promotion Queen)
\* at `to`, and the input board's content on the other 62 squares.
MakeMoveChangesOnlyFromAndTo ==
    (op = "make_move" /\ args[1] # args[2]) =>
      LET from == args[1]
          to == args[2]
          p == Cell(b0, from[1], from[2])
          placed == Cell(Returned, to[1], to[2])
      IN /\ Cell(Returned, from[1], from[2]) = "."
         /\ \/ placed = p
            \/ Lower(p) = "p" /\ placed = QueenOf(p)
         /\ \A s \in Squares \ {from, to} :
              Cell(Returned, s[1], s[2]) = Cell(b0, s[1], s[2])

\* make_move moved a piece onto an occupied square
MakeMoveOverwroteAPiece ==
    /\ op = "make_move"
    /\ args[1] # args[2]
    /\ Cell(b0, args[1][1], args[1][2]) # "."
    /\ Cell(b0, args[2][1], args[2][2]) # "."
    /\ Cell(Returned, args[2][1], args[2][2])
         = Cell(b0, args[1][1], args[1][2])
    /\ Cell(Returned, args[1][1], args[1][2]) = "."

\* the rank a pawn p travels towards
FarthestRank(p) == IF is_white(p) THEN 0 ELSE 7

\* C6: for a pawn move produced by gen_moves whose destination is the last
\* rank in the pawn's direction (row 0 for White, row 7 for Black),
\* make_move puts a Queen of the pawn's side on the destination, for
\* advances and for captures.
PawnMoveToLastRankPromotes ==
    (/\ op = "make_move"
     /\ Lower(Cell(b0, args[1][1], args[1][2])) = "p"
     /\ args[2][2] = FarthestRank(Cell(b0, args[1][1], args[1][2]))
     /\ args \in PseudoMoves(b0)) =>
      /\ Cell(Returned, args[2][1], args[2][2])
           = QueenOf(Cell(b0, args[1][1], args[1][2]))
      /\ Lower(Cell(Returned, args[2][1], args[2][2])) # "p"

\* a black pawn captured diagonally onto row 7 and became a black Queen
BlackPawnPromotedByCapture ==
    /\ op = "make_move"
    /\ args \in PseudoMoves(b0)
    /\ Cell(b0, args[1][1], args[1][2]) = "p"
    /\ args[2][2] = 7
    /\ args[2][1] # args[1][1]
    /\ Cell(b0, args[2][1], args[2][2]) # "."
    /\ Cell(Returned, args[2][1], args[2][2]) = "q"

\* C7 as stated: make_move places a Queen only when the moved piece is a
\* pawn and the destination rank is the farthest rank of the pawn's own
\* side; in every other case the moved piece itself is placed.
QueenOnlyOnOwnFarthestRank ==
    op = "make_move" =>
      LET p == Cell(b0, args[1][1], args[1][2])
      IN Cell(Returned, args[2][1], args[2][2])
           = IF Lower(p) = "p" /\ args[2][2] = FarthestRank(p)
             THEN QueenOf(p)
             ELSE p

\* C7: make_move places a Queen of the mover's side exactly when the moved
\* piece is a pawn and the destination rank is 0 or 7, whichever the pawn's
\* side; in every other case the moved piece itself is placed.
QueenOnRankZeroOrSeven ==
    op = "make_move" =>
      LET p == Cell(b0, args[1][1], args[1][2])
      IN Cell(Returned, args[2][1], args[2][2])
           = IF Lower(p) = "p" /\ (args[2][2] = 0 \/ args[2][2] = 7)
             THEN QueenOf(p)
             ELSE p

\* a white pawn was put on rank 7 and became a white Queen
WhitePawnOnRankSevenPromoted ==
    /\ op = "make_move"
    /\ Cell(b0, args[1][1], args[1][2]) = "P"
    /\ args[2][2] = 7
    /\ Cell(Returned, args[2][1], args[2][2]) = "Q"

\* the moves of ms that start on row y and go dy rows
StepsFrom(ms, y, dy) ==
    {i \in 1 .. Len(ms) : /\ ms[i][1][2] = y
                          /\ ms[i][2][1] = ms[i][1][1]
                          /\ ms[i][2][2] = y + dy}

\* the moves of ms made by a piece of kind k on bd
MovesOfKind(bd, ms, k) ==
    {i \in 1 .. Len(ms) : Lower(Cell(bd, ms[i][1][1], ms[i][1][2])) = k}

\* C8: from the standard initial position gen_moves returns 20 moves for
\* each side, 8 single pawn steps, 8 double pawn steps and 4 knight moves,
\* and legal_moves returns the same list.
InitialPositionTwentyMoves ==
    (b0 = initial_board /\ op \in {"gen_moves", "legal_moves"}) =>
      LET c == args[1]
          row == IF c = "white" THEN 6 ELSE 1
          dir == IF c = "white" THEN -1 ELSE 1
      IN /\ Len(ret) = 20
         /\ Cardinality(SeqRange(ret)) = 20
         /\ Cardinality(StepsFrom(ret, row, dir)
                        \cap MovesOfKind(b0, ret, "p")) = 8
         /\ Cardinality(StepsFrom(ret, row, 2 * dir)
                        \cap MovesOfKind(b0, ret, "p")) = 8
         /\ Cardinality(MovesOfKind(b0, ret, "n")) = 4
         /\ (op = "legal_moves" => ret = gen_moves(b0, c))

\* legal_moves returned Black's 20 opening moves
InitialPositionBlackLegalMoves ==
    /\ b0 = initial_board
    /\ op = "legal_moves"
    /\ args = <<"black">>
    /\ Len(ret) = 20

\* the square of the last gen_piece_moves call and the piece on it
ProbedPiece == Cell(b0, args[1], args[2])

IsEmpty(bd, x, y) == in_bounds(x, y) /\ Cell(bd, x, y) = "."

\* an enemy of p stands on (x, y)
HoldsEnemy(bd, x, y, p) ==
    /\ in_bounds(x, y)
    /\ Cell(bd, x, y) # "."
    /\ piece_color(Cell(bd, x, y)) # piece_color(p)

\* the destinations the pawn rules allow the pawn p on (x, y)
PawnDestinations(bd, x, y, p) ==
    LET dir == IF is_white(p) THEN -1 ELSE 1
        home == IF is_white(p) THEN 6 ELSE 1
    IN {t \in {<<x, y + dir>>} : IsEmpty(bd, x, y + dir)}
       \cup {t \in {<<x, y + 2 * dir>>} :
               /\ y = home
               /\ IsEmpty(bd, x, y + dir)
               /\ IsEmpty(bd, x, y + 2 * dir)}
       \cup {t \in {<<x - 1, y + dir>>, <<x + 1, y + dir>>} :
               HoldsEnemy(bd, t[1], t[2], p)}

\* every move of ms starts on sq, and no destination occurs twice
FromOnce(ms, sq) ==
    /\ \A i \in 1 .. Len(ms) : ms[i][1] = sq
    /\ Cardinality(Destinations(ms)) = Len(ms)

\* C9: for a pawn, gen_piece_moves yields exactly the one-step advance iff
\* the square ahead is on the board and empty, the two-step advance iff the
\* pawn is on its starting rank and both squares ahead are empty, and each
\* forward-diagonal step iff that square holds an enemy piece; forward is
\* decreasing row for White and increasing row for Black.
PawnMovesExact ==
    (op = "gen_piece_moves" /\ Lower(ProbedPiece) = "p") =>
      /\ Destinations(ret) = PawnDestinations(b0, args[1], args[2],
                                              ProbedPiece)
      /\ FromOnce(ret, args)

\* a pawn on its starting rank with the second square ahead occupied got
\* the one-step advance as its only move
PawnDoubleStepBlocked ==
    /\ op = "gen_piece_moves"
    /\ ProbedPiece = "P"
    /\ args[2] = 6
    /\ Cell(b0, args[1], 4) # "."
    /\ ret = << <<args, (<<args[1], 5>>)>> >>

\* the directions a slider of kind k moves along
SliderDirections(k) ==
    (IF k \in {"b", "q"} THEN {-1, 1} \X {-1, 1} ELSE {})
    \cup (IF k \in {"r", "q"}
          THEN {<<1, 0>>, <<-1, 0>>, <<0, 1>>, <<0, -1>>}
          ELSE {})

\* the squares the slider p on (x, y) reaches: n steps along a direction,
\* over empty squares only, onto an empty square or an enemy
SliderDestinations(bd, x, y, p) ==
    {t \in Squares :
       \E d \in SliderDirections(Lower(p)), n \in 1 .. 7 :
         /\ t = <<x + n * d[1], y + n * d[2]>>
         /\ \A e \in 1 .. n - 1 : IsEmpty(bd, x + e * d[1], y + e * d[2])
         /\ \/ IsEmpty(bd, t[1], t[2])
            \/ HoldsEnemy(bd, t[1], t[2], p)}

\* C10: for a Bishop, Rook or Queen, gen_piece_moves yields along each of
\* its directions exactly the empty squares up to the first occupied square
\* or the edge, plus that occupied square iff it holds an enemy; nothing
\* beyond it and no friendly-occupied square.
SliderMovesExact ==
    (op = "gen_piece_moves" /\ Lower(ProbedPiece) \in {"b", "r", "q"}) =>
      /\ Destinations(ret) = SliderDestinations(b0, args[1], args[2],
                                                ProbedPiece)
      /\ FromOnce(ret, args)

\* a slider captured an enemy that has a square of the board behind it
SliderStoppedAtCapture ==
    /\ op = "gen_piece_moves"
    /\ Lower(ProbedPiece) \in {"b", "r", "q"}
    /\ \E i \in 1 .. Len(ret) :
         LET t == ret[i][2]
             dx == t[1] - args[1]
             dy == t[2] - args[2]
         IN /\ Cell(b0, t[1], t[2]) # "."
            /\ in_bounds(t[1] + dx, t[2] + dy)
            /\ <<t[1] + dx, t[2] + dy>> \notin Destinations(ret)

\* C4: no engine call changes a cell of the board passed in: after
\* make_move, gen_moves, in_check, legal_moves and minimax (its recursion
\* included) the caller's board is what it was, and the board make_move
\* returns shares no row with it.
InputBoardNeverMutated ==
    op # "none" =>
      /\ board = b0
      /\ op = "make_move" =>
           \A i \in 1 .. 8, j \in 1 .. 8 : ret[i] # b[j]

\* make_move returned a board that differs from the board passed in, which
\* is unchanged
MakeMoveReturnedNewBoard ==
    /\ op = "make_move"
    /\ Cell(b0, args[1][1], args[1][2]) # "."
    /\ args[1] # args[2]
    /\ Returned # b0
    /\ board = b0

\* the squares one offset of offs away from (x, y) that are on the board and
\* hold no piece of p's side
StepDestinations(bd, x, y, p, offs) ==
    {t \in {<<x + d[1], y + d[2]>> : d \in offs} :
       IsEmpty(bd, t[1], t[2]) \/ HoldsEnemy(bd, t[1], t[2], p)}

\* the 8 L-shaped offsets
LShapes ==
    {d \in (-2 .. 2) \X (-2 .. 2) : Abs(d[1]) + Abs(d[2]) = 3 /\ d[1] * d[2] # 0}

\* the 8 offsets to the adjacent squares
Adjacent == ((-1 .. 1) \X (-1 .. 1)) \ {<<0, 0>>}

\* C11: for a Knight gen_piece_moves yields exactly the squares at the 8
\* L-shaped offsets that are on the board and empty or enemy-occupied, for a
\* King exactly the adjacent squares that are on the board and empty or
\* enemy-occupied; a king never moves more than one step, wherever a rook
\* stands.
KnightAndKingMovesExact ==
    (op = "gen_piece_moves" /\ Lower(ProbedPiece) \in {"n", "k"}) =>
      /\ Destinations(ret)
           = StepDestinations(b0, args[1], args[2], ProbedPiece,
                              IF Lower(ProbedPiece) = "n" THEN LShapes
                              ELSE Adjacent)
      /\ FromOnce(ret, args)
      /\ Lower(ProbedPiece) = "k" =>
           \A t \in Destinations(ret) :
             Abs(t[1] - args[1]) <= 1 /\ Abs(t[2] - args[2]) <= 1

\* the white king on its home square with a white rook on its rank, three
\* files away, got one-step moves only
KingBesideRookMovedOneStep ==
    /\ op = "gen_piece_moves"
    /\ ProbedPiece = "K"
    /\ args = <<4, 7>>
    /\ Cell(b0, 7, 7) = "R"
    /\ Len(ret) = 5

\* C12: every move of gen_moves(board, side) has both squares on the board,
\* a piece of `side` on its source, a destination different from the source
\* and a destination that is empty or holds a piece of the other side.
GenMovesWellFormed ==
    op = "gen_moves" =>
      \A i \in 1 .. Len(ret) :
        LET from == ret[i][1]
            to == ret[i][2]
        IN /\ from \in Squares
           /\ to \in Squares
           /\ piece_color(Cell(b0, from[1], from[2])) = args[1]
           /\ from # to
           /\ piece_color(Cell(b0, to[1], to[2])) # args[1]

\* gen_moves returned captures and moves to empty squares on a position
\* with blocked pieces
GenMovesWithCaptureAndBlock ==
    /\ op = "gen_moves"
    /\ \E i \in 1 .. Len(ret) : Cell(b0, ret[i][2][1], ret[i][2][2]) # "."
    /\ \E i \in 1 .. Len(ret) : Cell(b0, ret[i][2][1], ret[i][2][2]) = "."
    /\ b0 = initial_board \/ b0 = PinBoard \/ b0 = CheckBoard

\* the side and the depth of the last minimax call
SearchSide == args[2]

SearchDepth == args[1]

FullWindow == args[3] = -Infinity /\ args[4] = Infinity

\* C13: when legal_moves(board, side) is empty and depth >= 1, minimax
\* returns -999999 for White in check, +999999 for Black in check and 0 for
\* a side not in check, each with no move, whatever alpha and beta are.
TerminalScores ==
    (op = "minimax" /\ SearchDepth >= 1
       /\ legal_moves(b0, SearchSide) = <<>>) =>
      ret = << (IF ~in_check(b0, SearchSide) THEN 0
                ELSE IF SearchSide = "white" THEN -999999
                ELSE 999999),
               <<>> >>

\* White, checkmated with its king on the board, was searched with a window
\* that does not contain the mate score
WhiteMatedInNarrowWindow ==
    /\ op = "minimax"
    /\ SearchDepth >= 1
    /\ SearchSide = "white"
    /\ KingSquares(b0, "white") # {}
    /\ in_check(b0, "white")
    /\ args[3] = 0
    /\ args[4] = 0
    /\ ret = <<-999999, <<>> >>

\* C14: minimax with depth 0 returns (eval_board(board), None) on every
\* board, the boards where the side to move is checkmated or stalemated
\* included.
DepthZeroIsEvaluation ==
    (op = "minimax" /\ SearchDepth = 0) =>
      ret = <<eval_board(b0), <<>> >>

\* a checkmated side was searched at depth 0 and the score is the material
\* balance, not a mate score
DepthZeroOnMate ==
    /\ op = "minimax"
    /\ SearchDepth = 0
    /\ KingSquares(b0, SearchSide) # {}
    /\ legal_moves(b0, SearchSide) = <<>>
    /\ in_check(b0, SearchSide)
    /\ ret[1] = eval_board(b0)
    /\ Abs(ret[1]) < 999999

\* C19: on a board without the king of the side to move, minimax with
\* depth >= 1 returns (-999999, None) for White and (+999999, None) for
\* Black.
MissingKingIsMate ==
    (op = "minimax" /\ SearchDepth >= 1
       /\ KingSquares(b0, SearchSide) = {}) =>
      ret = << (IF SearchSide = "white" THEN -999999 ELSE 999999), <<>> >>

\* Black without a king, with pieces that have pseudo-legal moves, was
\* searched at depth 2
BlackWithoutKingSearched ==
    /\ op = "minimax"
    /\ SearchDepth = 2
    /\ SearchSide = "black"
    /\ KingSquares(b0, "black") = {}
    /\ gen_moves(b0, "black") # <<>>
    /\ ret = <<999999, <<>> >>

\* The search without a window: the same move order, the same strict
\* update, the same base and terminal cases, every move visited.
RECURSIVE plain_minimax(_, _, _)

\* one move of the loop; st holds the best value and move so far
plain_step(st, bd, depth, color, mv) ==
    LET val == plain_minimax(make_move(bd, mv), depth - 1, Enemy(color))[1]
        better == IF color = "white" THEN val > st.val ELSE val < st.val
    IN IF better THEN [val |-> val, mv |-> mv] ELSE st

\* the moves lo .. hi of the loop
RECURSIVE plain_range(_, _, _, _, _, _, _)
plain_range(st, bd, depth, color, moves, lo, hi) ==
    IF lo > hi THEN st
    ELSE IF lo = hi THEN plain_step(st, bd, depth, color, moves[lo])
    ELSE LET mid == (lo + hi) \div 2
             left == plain_range(st, bd, depth, color, moves, lo, mid)
         IN IF left.val >= -Infinity   \* the first half is run first
            THEN plain_range(left, bd, depth, color, moves, mid + 1, hi)
            ELSE left

plain_minimax(bd, depth, color) ==
    IF depth = 0 THEN <<eval_board(bd), <<>> >>
    ELSE LET moves == legal_moves(bd, color)
         IN IF moves = <<>>
            THEN IF in_check(bd, color)
                 THEN << (IF color = "white" THEN -MateScore
                          ELSE MateScore), <<>> >>
                 ELSE <<0, <<>> >>
            ELSE LET st == plain_range(
                             [val |-> IF color = "white" THEN -Infinity
                                      ELSE Infinity,
                              mv |-> <<>>],
                             bd, depth, color, moves, 1, Len(moves))
                 IN <<st.val, st.mv>>

\* C15: for depth 1 and depth 2 minimax with the full window returns the
\* score and the move of the search without pruning.
PruningKeepsResult ==
    (op = "minimax" /\ FullWindow /\ SearchDepth \in {1, 2}) =>
      ret = plain_minimax(b0, SearchDepth, SearchSide)

\* the values of the positions after each of the moves ms[1 .. n] of White,
\* Black to reply, searched one ply
ValuesBefore(bd, ms, n) ==
    {plain_minimax(make_move(bd, ms[k]), 1, "black")[1] : k \in 1 .. n}

\* White's depth-2 search met a cutoff: after some move of White that is
\* not the first, a reply of Black that is not the last one evaluates no
\* higher than the value of an earlier move of White
CutoffInWhiteSearch ==
    /\ op = "minimax"
    /\ FullWindow
    /\ SearchDepth = 2
    /\ SearchSide = "white"
    /\ ret[2] # <<>>
    /\ LET ms == legal_moves(b0, "white")
       IN \E i \in 2 .. Len(ms) :
            LET child == make_move(b0, ms[i])
                replies == legal_moves(child, "black")
            IN \E j \in 1 .. Len(replies) - 1 :
                 \E a \in ValuesBefore(b0, ms, i - 1) :
                   eval_board(make_move(child, replies[j])) <= a

\* the material balance after each legal move of `color`
BalancesAfter(bd, color) ==
    LET ms == legal_moves(bd, color)
    IN {eval_board(make_move(bd, ms[i])) : i \in 1 .. Len(ms)}

\* C16: at depth 1 with the full window minimax returns, for White, the
\* maximum of eval_board(make_move(board, m)) over the legal moves m and a
\* move that attains it, for Black the minimum; a capture of an undefended
\* Queen that no other move betters is the move returned, with the balance
\* after the capture as the score.
DepthOneTakesBestBalance ==
    (op = "minimax" /\ FullWindow /\ SearchDepth = 1
       /\ legal_moves(b0, SearchSide) # <<>>) =>
      /\ ret[1] \in BalancesAfter(b0, SearchSide)
      /\ \A v \in BalancesAfter(b0, SearchSide) :
           IF SearchSide = "white" THEN v <= ret[1] ELSE v >= ret[1]
      /\ ret[2] \in SeqRange(legal_moves(b0, SearchSide))
      /\ eval_board(make_move(b0, ret[2])) = ret[1]

\* White's bishop took the undefended black Queen and the score is the
\* balance after the capture
BishopTookQueen ==
    /\ op = "minimax"
    /\ FullWindow
    /\ SearchDepth = 1
    /\ SearchSide = "white"
    /\ b0 = CheckBoard
    /\ ret[2] = <<(<<2, 5>>), (<<4, 3>>)>>
    /\ Cell(b0, 4, 3) = "q"
    /\ ret[1] = eval_board(b0) + 900

\* the legal moves of `color` by index, each with the value of its subtree
SubtreeValues(bd, depth, color) ==
    LET ms == legal_moves(bd, color)
    IN {<<i, ms[i],
          plain_minimax(make_move(bd, ms[i]), depth - 1, Enemy(color))[1]>> :
          i \in 1 .. Len(ms)}

\* C17: of the legal moves whose subtree value equals the best score,
\* minimax returns the first in the order of legal_moves, for White and for
\* Black (depth 1 and depth 2, the full window).
FirstBestMoveIsKept ==
    (op = "minimax" /\ FullWindow /\ SearchDepth \in {1, 2}
       /\ legal_moves(b0, SearchSide) # <<>>) =>
      LET sv == SubtreeValues(b0, SearchDepth, SearchSide)
      IN /\ \A e \in sv :
              IF SearchSide = "white" THEN e[3] <= ret[1]
              ELSE e[3] >= ret[1]
         /\ \E e \in sv :
              /\ e[2] = ret[2]
              /\ e[3] = ret[1]
              /\ \A f \in sv : f[3] = ret[1] => f[1] >= e[1]

\* a later legal move has the same subtree value as the move returned
LaterMoveTiedWithReturned ==
    /\ op = "minimax"
    /\ FullWindow
    /\ SearchDepth = 2
    /\ ret[2] # <<>>
    /\ LET sv == SubtreeValues(b0, SearchDepth, SearchSide)
       IN \E e \in sv, f \in sv :
            /\ e[2] = ret[2]
            /\ f[1] > e[1]
            /\ f[3] = ret[1]

\* C18: two calls of minimax with the same board, depth, side, alpha and
\* beta return the same score and the same move; nothing an earlier call
\* left behind changes the result.
MinimaxDeterministic ==
    op = "minimax_again" =>
      ret[2] = ret[1]

\* a depth-2 search that returned a move was repeated
SearchRepeated ==
    /\ op = "minimax_again"
    /\ args[1] = 2
    /\ ret[1][2] # <<>>
    /\ ret[2][2] = ret[1][2]

\* the stated value of a piece of kind k
PieceValue(k) ==
    CASE k = "P" -> 100 [] k = "N" -> 320 [] k = "B" -> 330
      [] k = "R" -> 500 [] k = "Q" -> 900 [] k = "K" -> 20000

\* how many squares of bd hold the piece p
Count(bd, p) == Cardinality({s \in Squares : Cell(bd, s[1], s[2]) = p})

\* the black piece of the kind of the white piece k
BlackOf(k) == Lower(k)

\* the sum of n(k) over the six kinds of piece
OverKinds(n(_)) == n("P") + n("N") + n("B") + n("R") + n("Q") + n("K")

\* the value of White's pieces less the value of Black's
Material(bd) ==
    LET net(k) == PieceValue(k) * (Count(bd, k) - Count(bd, BlackOf(k)))
    IN OverKinds(net)

\* the piece of the same kind and the other colour
Recolour(p) ==
    IF p = "." THEN "."
    ELSE IF p \in WhitePieces THEN Lower(p)
    ELSE CHOOSE k \in WhitePieces : Lower(k) = p

\* bd with the colour of every piece changed
SwapColours(bd) == [i \in 1 .. 8 |-> [j \in 1 .. 8 |-> Recolour(bd[i][j])]]

\* C20: eval_board is the sum over the occupied cells of the piece value
\* (Pawn 100, Knight 320, Bishop 330, Rook 500, Queen 900, King 20000),
\* positive for White and negative for Black; it is 0 on the initial
\* position and changes sign when every piece changes colour.
EvalBoardIsMaterial ==
    op = "eval_board" =>
      /\ ret = Material(b0)
      /\ b0 = initial_board => ret = 0
      /\ eval_board(SwapColours(b0)) = -ret

\* eval_board returned a non-zero balance on a board with pieces of both
\* sides
EvalBoardUnbalanced ==
    /\ op = "eval_board"
    /\ ret # 0
    /\ \E s \in Squares : is_white(Cell(b0, s[1], s[2]))
    /\ \E s \in Squares : is_black(Cell(b0, s[1], s[2]))
    /\ eval_board(SwapColours(b0)) = -ret

\* the side to move before the n-th move of a game (White moves first)
SideOfMove(n) == IF n % 2 = 1 THEN "white" ELSE "black"

\* C21: the fool's-mate position is reached from initial_board by f2-f3,
\* e7-e5, g2-g4, Qd8-h4, each move being a member of legal_moves for the side
\* to move at that point, and on the resulting board legal_moves(board,
\* White) is empty and in_check(board, White) is true.
FoolsMateIsCheckmate ==
    (op \in {"legal_moves", "in_check"} /\ args = <<"white">>
     /\ Cell(b0, 7, 4) = "q" /\ b0 = FoolsMateBoard) =>
      /\ op = "legal_moves" => ret = <<>>
      /\ op = "in_check" => ret = TRUE
      /\ \A n \in 1 .. 4 :
           FoolsMateLine[n]
             \in SeqRange(legal_moves(LineBoard(FoolsMateLine, n - 1),
                                      SideOfMove(n)))

\* legal_moves answered for White on the board where the black queen stands
\* on h4 and the pawns on f3 and g4
FoolsMateAsked ==
    /\ op = "legal_moves"
    /\ args = <<"white">>
    /\ b0 = FoolsMateBoard
    /\ Cell(b0, 7, 4) = "q" /\ Cell(b0, 5, 5) = "P" /\ Cell(b0, 6, 4) = "P"
    /\ ret = <<>>

\* C22: on the board holding only a black king on h8, a white king on f7 and
\* a white queen on g6, legal_moves(board, Black) is empty while
\* in_check(board, Black) is false.
StalemateIsNotCheck ==
    (b0 = StalemateBoard /\ args = <<"black">>) =>
      /\ op = "legal_moves" => ret = <<>>
      /\ op = "in_check" => ret = FALSE

\* in_check answered False for Black on the board with k on h8, K on f7 and
\* Q on g6, where every move of the black king is pseudo-legal
StalemateInCheckAsked ==
    /\ op = "in_check"
    /\ args = <<"black">>
    /\ b0 = StalemateBoard
    /\ Cell(b0, 7, 0) = "k" /\ Cell(b0, 5, 1) = "K" /\ Cell(b0, 6, 2) = "Q"
    /\ gen_moves(b0, "black") # <<>>
    /\ ret = FALSE

\* C28: for every board, side, alpha and beta, minimax returns a move of None
\* if and only if depth is 0 or legal_moves(board, side) is empty; whenever
\* depth >= 1 and legal_moves is non-empty the returned move is an element
\* of legal_moves(board, side), also when the loop breaks after the first
\* move.
MoveIsNoneOrLegal ==
    op = "minimax" =>
      LET legal == legal_moves(b0, SearchSide)
      IN /\ ret[2] = <<>> <=> (SearchDepth = 0 \/ legal = <<>>)
         /\ (SearchDepth >= 1 /\ legal # <<>>) => ret[2] \in SeqRange(legal)

\* a search of depth >= 1 in the window (0, 0), where the loop breaks after
\* the first of several legal moves, returned that first move
LoopBrokeAfterFirstMove ==
    /\ op = "minimax"
    /\ SearchDepth >= 1
    /\ args[3] = 0 /\ args[4] = 0
    /\ Len(legal_moves(b0, SearchSide)) > 1
    /\ ret[2] = legal_moves(b0, SearchSide)[1]

\* ------------------------------------------------------------------------
\* The engine variables while a game other than an engine call runs
\* ------------------------------------------------------------------------
EngineIdle ==
    /\ heap = <<>>
    /\ b = <<>>
    /\ b0 = <<>>
    /\ op = "none"
    /\ args = <<>>
    /\ ret = <<>>

\* ------------------------------------------------------------------------
\* Snake (games/snake.py)
\* ------------------------------------------------------------------------
SNAKE_CELL == 4
SNAKE_GRID_W == 128 \div SNAKE_CELL
SNAKE_GRID_H == 64 \div SNAKE_CELL

\* the number of movement ticks followed
MaxTicks == 4

\* random.getrandbits(k) is followed for its FoodSpan + 1 largest values
FoodSpan == 1

getrandbits(k) == (2 ^ k - 1 - FoodSpan) .. (2 ^ k - 1)

\* what buttons.get_event() returns
Events ==
    {"NONE", "UP", "DOWN", "LEFT", "RIGHT", "CONFIRM", "SHOULDER_L",
     "SHOULDER_R"}

\* the cells _place_food can return: the first random cell not in the snake
place_food(body) ==
    {<<r[1] % SNAKE_GRID_W, r[2] % SNAKE_GRID_H>> :
        r \in getrandbits(4) \X getrandbits(3)} \ SeqRange(body)

\* the if/elif chain on the event: the direction after the event
turned(dirx, diry, evt) ==
    IF evt = "UP" /\ ~(diry = 1 /\ dirx = 0) THEN <<0, -1>>
    ELSE IF evt = "DOWN" /\ ~(diry = -1 /\ dirx = 0) THEN <<0, 1>>
    ELSE IF evt = "LEFT" /\ ~(dirx = 1 /\ diry = 0) THEN <<-1, 0>>
    ELSE IF evt = "RIGHT" /\ ~(dirx = -1 /\ diry = 0) THEN <<1, 0>>
    ELSE <<dirx, diry>>

\* the movement tick: the states after the head advanced by (dirx, diry).
\* `advanced` keeps the directions of the last two advances, newest first
moved(s) ==
    LET head == <<(s.snake[1][1] + s.dirx) % SNAKE_GRID_W,
                  (s.snake[1][2] + s.diry) % SNAKE_GRID_H>>
        alive == IF head \in SeqRange(s.snake) THEN FALSE ELSE s.alive
        grown == <<head>> \o s.snake
        after == [s EXCEPT !.alive = alive,
                           !.ticks = s.ticks + 1,
                           !.advanced =
                               IF s.advanced = <<>>
                               THEN <<(<<s.dirx, s.diry>>)>>
                               ELSE <<(<<s.dirx, s.diry>>), s.advanced[1]>>]
    IN IF head = s.food
       THEN {[after EXCEPT !.snake = grown, !.food = f] :
                f \in place_food(grown)}
       ELSE {[after EXCEPT !.snake = SubSeq(grown, 1, Len(grown) - 1)]}

\* the locals of run before the first iteration of the loop
SnakeStart ==
    LET sx == SNAKE_GRID_W \div 2
        sy == SNAKE_GRID_H \div 2
        body == <<(<<sx, sy>>), (<<sx - 1, sy>>), (<<sx - 2, sy>>)>>
    IN {[snake |-> body, dirx |-> 1, diry |-> 0, food |-> f, alive |-> TRUE,
         pc |-> "loop", ticks |-> 0, advanced |-> <<>>] :
           f \in place_food(body)}

\* one iteration of `while True`: the event, then the movement tick when
\* more than speed_ms have passed (`due`), then the game-over test
SnakeLoop ==
    /\ snake # <<>>
    /\ snake.pc = "loop"
    /\ \E evt \in Events,
          due \in IF snake.ticks < MaxTicks THEN BOOLEAN ELSE {FALSE} :
         LET d == turned(snake.dirx, snake.diry, evt)
             s1 == [snake EXCEPT !.dirx = d[1], !.diry = d[2]]
         IN IF evt = "SHOULDER_L"
            THEN snake' = [snake EXCEPT !.pc = "returned"]
            ELSE \E s2 \in IF due THEN moved(s1) ELSE {s1} :
                   snake' = [s2 EXCEPT !.pc = IF s2.alive THEN "loop"
                                              ELSE "over"]
    /\ UNCHANGED <<engine, chess, volfied>>

\* the loop on the Game Over screen
SnakeGameOver ==
    /\ snake # <<>>
    /\ snake.pc = "over"
    /\ \E evt \in Events :
         snake' = [snake EXCEPT !.pc = IF evt = "CONFIRM" THEN "returned"
                                       ELSE "over"]
    /\ UNCHANGED <<engine, chess, volfied>>

InitSnake ==
    /\ EngineIdle
    /\ chess = <<>>
    /\ volfied = <<>>
    /\ snake \in SnakeStart

NextSnake == SnakeLoop \/ SnakeGameOver

SpecSnake == InitSnake /\ [][NextSnake]_vars

\* the direction opposite to d
Opposite(d) == <<-d[1], -d[2]>>

\* C30: for every sequence of button events and movement ticks, the
\* direction in which the head advances on a movement tick is never the
\* exact opposite of the direction of the previous movement tick, so the
\* head never steps onto its own neck segment.
SnakeNeverReverses ==
    (snake # <<>> /\ Len(snake.advanced) = 2) =>
      /\ snake.advanced[1] # Opposite(snake.advanced[2])
      /\ snake.snake[1] # snake.snake[3]

\* ------------------------------------------------------------------------
\* Volfied (games/volfied.py)
\* ------------------------------------------------------------------------
VOLFIED_CELL == 4
W_PIX == 128
H_PIX == 64
VOLFIED_GRID_W == W_PIX \div VOLFIED_CELL
VOLFIED_GRID_H == H_PIX \div VOLFIED_CELL
TARGET_PERCENT == 85
INITIAL_ENEMIES == 1
MAX_LEVEL == 8

\* the base radius of each entry of _ENEMY_TYPES
ENEMY_TYPES == {1, 2, 3, 5}

\* the number of arrow events followed
MaxMoves == 5

\* an enemy is followed while its cell is within EnemyRange cells of the
\* centre of the grid
EnemyRange == 0

\* the cells (y, x) of the grid
GridCells == (0 .. VOLFIED_GRID_H - 1) \X (0 .. VOLFIED_GRID_W - 1)

make_blank_grid ==
    [y \in 0 .. VOLFIED_GRID_H - 1 |->
       [x \in 0 .. VOLFIED_GRID_W - 1 |->
          IF y = 0 \/ y = VOLFIED_GRID_H - 1
             \/ x = 0 \/ x = VOLFIED_GRID_W - 1
          THEN 1 ELSE 0]]

\* the centre pixel of cell number c along one axis
CellCentre(c) == c * VOLFIED_CELL + VOLFIED_CELL \div 2

\* the enemies _make_enemies can return: each on a candidate cell around the
\* centre, with the radius of a random type scaled by the level.  The
\* position is the centre of the cell; the jitter, the direction and the
\* speed state are left out
make_enemies(level, count, grid) ==
    LET cx_cell == VOLFIED_GRID_W \div 2
        cy_cell == VOLFIED_GRID_H \div 2
        radius_cells == Max(1, Min(VOLFIED_GRID_W, VOLFIED_GRID_H) \div 4)
        near == {c \in GridCells :
                   /\ Abs(c[1] - cy_cell) <= Min(radius_cells, EnemyRange)
                   /\ Abs(c[2] - cx_cell) <= Min(radius_cells, EnemyRange)
                   /\ grid[c[1]][c[2]] = 0}
        free == {c \in GridCells : grid[c[1]][c[2]] = 0}
        candidates == IF near # {} THEN near
                      ELSE IF free # {} THEN free ELSE GridCells
        one == {[x |-> CellCentre(c[2]), y |-> CellCentre(c[1]),
                 r |-> Max(1, base_r + (level - 1))] :
                   c \in candidates, base_r \in ENEMY_TYPES}
    IN [1 .. count -> one]

circle_rect_overlap(cx, cy, r, rx, ry, rw, rh) ==
    LET nearest_x == IF cx < rx THEN rx
                     ELSE IF cx > rx + rw THEN rx + rw ELSE cx
        nearest_y == IF cy < ry THEN ry
                     ELSE IF cy > ry + rh THEN ry + rh ELSE cy
        dx == cx - nearest_x
        dy == cy - nearest_y
    IN dx * dx + dy * dy <= r * r

overlaps_claimed(cx, cy, r, grid) ==
    LET min_cx == Max(0, (cx - r) \div VOLFIED_CELL)
        max_cx == Min(VOLFIED_GRID_W - 1, (cx + r) \div VOLFIED_CELL)
        min_cy == Max(0, (cy - r) \div VOLFIED_CELL)
        max_cy == Min(VOLFIED_GRID_H - 1, (cy + r) \div VOLFIED_CELL)
    IN \E gy \in min_cy .. max_cy, gx \in min_cx .. max_cx :
         /\ grid[gy][gx] = 1
         /\ circle_rect_overlap(cx, cy, r, gx * VOLFIED_CELL,
                                gy * VOLFIED_CELL, VOLFIED_CELL, VOLFIED_CELL)

\* the positions _update_enemies can leave one enemy at: it stays in its
\* cell or reaches the centre of a neighbouring cell, never overlapping a
\* claimed cell
updated_enemy(e, grid) ==
    {n \in {[e EXCEPT !.x = nx, !.y = ny] :
               nx \in {e.x - VOLFIED_CELL, e.x, e.x + VOLFIED_CELL},
               ny \in {e.y - VOLFIED_CELL, e.y, e.y + VOLFIED_CELL}} :
        /\ n.x \in 0 .. W_PIX - 1
        /\ n.y \in 0 .. H_PIX - 1
        /\ ~overlaps_claimed(n.x, n.y, n.r, grid)
        /\ Abs(n.x \div VOLFIED_CELL - VOLFIED_GRID_W \div 2) <= EnemyRange
        /\ Abs(n.y \div VOLFIED_CELL - VOLFIED_GRID_H \div 2) <= EnemyRange}

update_enemies(enemies, grid) ==
    {es \in [1 .. Len(enemies) ->
               UNION {updated_enemy(enemies[i], grid) :
                        i \in 1 .. Len(enemies)}] :
        \A i \in 1 .. Len(enemies) : es[i] \in updated_enemy(enemies[i], grid)}

\* whether the circle of some enemy reaches the centre of cell (cy, cx)
\* within CELL // 2
enemy_hits_cell_any(enemies, py, px) ==
    \E i \in 1 .. Len(enemies) :
      LET dx == enemies[i].x - CellCentre(px)
          dy == enemies[i].y - CellCentre(py)
          reach == enemies[i].r + VOLFIED_CELL \div 2
      IN dx * dx + dy * dy <= reach * reach

check_enemy_trail_collision(enemies, trail_cells) ==
    \E c \in trail_cells : enemy_hits_cell_any(enemies, c[1], c[2])

\* the four neighbours the flood fill visits from cell (y, x)
FloodNeighbours(c) ==
    {<<c[1], c[2] + 1>>, <<c[1], c[2] - 1>>,
     <<c[1] + 1, c[2]>>, <<c[1] - 1, c[2]>>} \cap GridCells

\* the while loop of _capture_area: the cells marked reachable once the
\* stack is empty, given those marked so far and those still on the stack.
\* Every cell on the stack is popped in the end, so a whole stack is taken
\* at a time
RECURSIVE flood(_, _, _)
flood(grid, reachable, stack) ==
    LET pushed == {n \in UNION {FloodNeighbours(c) : c \in stack} :
                     n \notin reachable /\ grid[n[1]][n[2]] # 1}
    IN IF pushed = {} THEN reachable
       ELSE flood(grid, reachable \cup pushed, pushed)

\* the grid after _capture_area(grid, trail_cells, enemies)
capture_area(grid, trail_cells, enemies) ==
    LET seeds == {c \in {<<enemies[i].y \div VOLFIED_CELL,
                           enemies[i].x \div VOLFIED_CELL>> :
                             i \in 1 .. Len(enemies)} :
                    c \in GridCells /\ grid[c[1]][c[2]] # 1}
        reachable == flood(grid, seeds, seeds)
    IN [y \in 0 .. VOLFIED_GRID_H - 1 |->
          [x \in 0 .. VOLFIED_GRID_W - 1 |->
             IF <<y, x>> \in trail_cells THEN 1
             ELSE IF grid[y][x] # 1 /\ <<y, x>> \notin reachable THEN 1
             ELSE grid[y][x]]]

capture_percent(grid) ==
    (Cardinality({c \in GridCells : grid[c[1]][c[2]] = 1}) * 100)
      \div (VOLFIED_GRID_W * VOLFIED_GRID_H)

\* the locals of run when the intro screen is shown.  `message` is the
\* first line of the last _show_message; `moves` counts the arrow events
\* handled; `captured` holds the arguments and the result of
\* the _capture_area call of the last iteration, <<>> when it made none
VolfiedStart ==
    {[grid |-> make_blank_grid, level |-> 1, px |-> 1, py |-> 0,
      enemies |-> es, drawing |-> FALSE, trail_cells |-> {},
      pc |-> "intro", message |-> "Volfied", moves |-> 0,
      captured |-> <<>>] :
        es \in make_enemies(1, INITIAL_ENEMIES, make_blank_grid)}

\* the loop waiting for CONFIRM on the intro screen
VolfiedIntro ==
    /\ volfied # <<>>
    /\ volfied.pc = "intro"
    /\ \E ev \in Events :
         volfied' = [volfied EXCEPT !.pc = IF ev = "CONFIRM" THEN "loop"
                                           ELSE "intro"]
    /\ UNCHANGED <<engine, chess, snake>>

\* `if moved:` of the main loop: the player steps to (nx, ny), starts or
\* extends the trail on an unclaimed cell and captures on a claimed one
player_moved(v, nx, ny) ==
    IF ~(0 <= nx /\ nx < VOLFIED_GRID_W /\ 0 <= ny /\ ny < VOLFIED_GRID_H)
    THEN v
    ELSE LET cur == v.grid[ny][nx]
             at == [v EXCEPT !.px = nx, !.py = ny]
         IN IF cur = 0
            THEN [at EXCEPT !.drawing = TRUE,
                            !.grid[ny][nx] = 2,
                            !.trail_cells = v.trail_cells \cup {<<ny, nx>>}]
            ELSE IF cur = 1 /\ v.drawing
            THEN LET after == capture_area(v.grid, v.trail_cells, v.enemies)
                 IN [at EXCEPT !.grid = after,
                               !.trail_cells = {},
                               !.drawing = FALSE,
                               !.captured = [grid |-> v.grid,
                                             trail_cells |-> v.trail_cells,
                                             enemies |-> v.enemies,
                                             after |-> after]]
            ELSE at

\* the input part of one iteration: the state after the event ev
after_event(v, ev) ==
    LET w == [v EXCEPT !.captured = <<>>]
        m == [w EXCEPT !.moves = v.moves + 1]
    IN IF ev = "UP" THEN player_moved(m, v.px, v.py - 1)
       ELSE IF ev = "DOWN" THEN player_moved(m, v.px, v.py + 1)
       ELSE IF ev = "LEFT" THEN player_moved(m, v.px - 1, v.py)
       ELSE IF ev = "RIGHT" THEN player_moved(m, v.px + 1, v.py)
       ELSE w

\* the end of one iteration: the collisions, then the level-up test.  The
\* Game Over and You Win screens wait for CONFIRM and return
after_enemies(v) ==
    LET game_over ==
          \/ check_enemy_trail_collision(v.enemies, v.trail_cells)
          \/ /\ v.grid[v.py][v.px] # 1
             /\ enemy_hits_cell_any(v.enemies, v.py, v.px)
    IN IF game_over
       THEN {[v EXCEPT !.message = "Game Over", !.pc = "returned"]}
       ELSE IF capture_percent(v.grid) >= TARGET_PERCENT
       THEN IF v.level + 1 > MAX_LEVEL
            THEN {[v EXCEPT !.level = v.level + 1,
                            !.message = "You Win!", !.pc = "returned"]}
            ELSE {[v EXCEPT !.level = v.level + 1,
                            !.grid = make_blank_grid,
                            !.px = 1, !.py = 0,
                            !.trail_cells = {},
                            !.drawing = FALSE,
                            !.enemies = es] :
                     es \in make_enemies(v.level + 1,
                                         INITIAL_ENEMIES
                                           + ((v.level + 1) \div 2),
                                         make_blank_grid)}
       ELSE {v}

\* one iteration of the main `while True`
VolfiedLoop ==
    /\ volfied # <<>>
    /\ volfied.pc = "loop"
    /\ \E ev \in IF volfied.moves < MaxMoves THEN Events
                 ELSE Events \ {"UP", "DOWN", "LEFT", "RIGHT"} :
         IF ev = "SHOULDER_L"
         THEN volfied' = [volfied EXCEPT !.pc = "returned"]
         ELSE \E v1 \in {after_event(volfied, ev)} :
                \E es \in update_enemies(v1.enemies, v1.grid) :
                  volfied' \in after_enemies([v1 EXCEPT !.enemies = es])
    /\ UNCHANGED <<engine, chess, snake>>

InitVolfied ==
    /\ EngineIdle
    /\ chess = <<>>
    /\ snake = <<>>
    /\ volfied \in VolfiedStart

NextVolfied == VolfiedIntro \/ VolfiedLoop

SpecVolfied == InitVolfied /\ [][NextVolfied]_vars

\* the cells reached from the cells `from` by 4-connected steps through the
\* cells of `through`
RECURSIVE ReachedThrough(_, _)
ReachedThrough(through, from) ==
    LET more == (UNION {FloodNeighbours(c) : c \in from} \cap through) \ from
    IN IF more = {} THEN from ELSE ReachedThrough(through, from \cup more)

\* the cells of the enemies at the time of the capture
EnemyCells(c) ==
    {<<c.enemies[i].y \div VOLFIED_CELL, c.enemies[i].x \div VOLFIED_CELL>> :
        i \in 1 .. Len(c.enemies)}

\* C29: when the player, while drawing a trail, steps onto a claimed cell,
\* that _capture_area call claims every trail cell and every unclaimed cell
\* that cannot be reached from an enemy's cell by 4-connected steps through
\* unclaimed non-trail cells (the trail acts as a wall), leaves unclaimed
\* every cell that can be so reached, and leaves no cell with the trail
\* value 2.
CaptureClaimsEnclosedCells ==
    (volfied # <<>> /\ volfied.captured # <<>>) =>
      LET c == volfied.captured
          open == {g \in GridCells : c.grid[g[1]][g[2]] = 0}
          kept == ReachedThrough(open, EnemyCells(c) \cap open)
      IN \A g \in GridCells :
           /\ c.after[g[1]][g[2]] # 2
           /\ g \in c.trail_cells => c.after[g[1]][g[2]] = 1
           /\ (g \in open \ kept) => c.after[g[1]][g[2]] = 1
           /\ g \in kept => c.after[g[1]][g[2]] = 0

\* ------------------------------------------------------------------------
\* The chess game loop (run in games/chess.py)
\* ------------------------------------------------------------------------
DIFFICULTIES == <<"Easy", "Normal", "Hard">>

DEPTH_FOR(difficulty) ==
    CASE difficulty = "Easy" -> 1
      [] difficulty = "Normal" -> 2
      [] difficulty = "Hard" -> 3

\* the number of human moves followed in a game of each difficulty
MaxMovesEasy == 4
MaxMovesNormal == 2
MaxMovesHard == 1

MaxMovesFor(difficulty) ==
    CASE difficulty = "Easy" -> MaxMovesEasy
      [] difficulty = "Normal" -> MaxMovesNormal
      [] difficulty = "Hard" -> MaxMovesHard

\* the events run tests for: main.py names the shoulder buttons SHOULDER_L
\* and SHOULDER_R, run tests for SHOULDER_LEFT and SHOULDER_RIGHT
ChessEvents == Events \cup {"SHOULDER_LEFT", "SHOULDER_RIGHT"}

\* the squares on which a pick/place event is followed: e2, e4, d1, h5, e8
ConfirmSquares == {<<4, 6>>, <<4, 4>>, <<3, 7>>, <<7, 3>>, <<4, 0>>}

\* the outcomes of random.choice that are followed: f7-f6, g7-g5, Ke8-f7
\* when they are among the moves, the first of the moves otherwise
FollowedReplies ==
    {<<(<<5, 1>>), (<<5, 2>>)>>, <<(<<6, 1>>), (<<6, 3>>)>>,
     <<(<<4, 0>>), (<<5, 1>>)>>}

random_choice(moves) ==
    IF SeqRange(moves) \cap FollowedReplies # {}
    THEN SeqRange(moves) \cap FollowedReplies
    ELSE {moves[1]}

\* `if turn == 'black':` after the human's move: the boards the computer's
\* reply can leave, each with the move applied (<<>> when none is)
computer_reply(bd, difficulty) ==
    IF difficulty = "Easy"
    THEN UNION {IF moves # <<>>
                THEN {[board |-> make_move(bd, m), mv |-> m] :
                        m \in random_choice(moves)}
                ELSE {[board |-> bd, mv |-> <<>>]} :
                  moves \in {legal_moves(bd, "black")}}
    ELSE {IF r[2] # <<>>
          THEN [board |-> make_move(bd, r[2]), mv |-> r[2]]
          ELSE [board |-> bd, mv |-> <<>>] :
            r \in {minimax(bd, DEPTH_FOR(difficulty), "black",
                           -(10 ^ 9), 10 ^ 9)}}

\* the locals of run in the pre-play loop
ChessStart ==
    [pc |-> "preplay", diff_index |-> 1, difficulty |-> "", board |-> <<>>,
     turn |-> "", selx |-> 0, sely |-> 0, selecting |-> FALSE,
     selected_sq |-> <<>>, hud_hint |-> "", leg |-> <<>>, screen |-> "Chess",
     moved |-> 0, movers |-> <<>>, reply |-> <<>>]

\* one iteration of the pre-play loop; CONFIRM leaves it, the residual
\* events are flushed and the game state is set up.  `leg` is what line 428
\* computes for the board and the turn; `moved` counts the human's moves,
\* `movers` keeps the sides of the last two moves applied, newest first, and
\* `reply` the board the computer received in this iteration with the move
\* it applied
ChessPrePlay ==
    /\ chess # <<>>
    /\ chess.pc = "preplay"
    /\ \E ev \in ChessEvents :
         chess' =
           IF ev = "SHOULDER_RIGHT"
           THEN [chess EXCEPT !.diff_index = (chess.diff_index + 1) % 3]
           ELSE IF ev = "SHOULDER_LEFT"
           THEN [chess EXCEPT !.diff_index = (chess.diff_index - 1) % 3]
           ELSE IF ev = "CONFIRM"
           THEN [chess EXCEPT !.pc = "loop",
                              !.difficulty = DIFFICULTIES[chess.diff_index + 1],
                              !.board = initial_board,
                              !.turn = "white",
                              !.selx = 0, !.sely = 7,
                              !.selecting = FALSE,
                              !.selected_sq = <<>>,
                              !.leg = legal_moves(initial_board, "white")]
           ELSE chess
    /\ UNCHANGED <<engine, volfied, snake>>

\* `if mv in legal:` the human's move is applied, then the computer's reply
placed(c, mv) ==
    {[c EXCEPT !.board = r.board,
               !.selecting = FALSE,
               !.selected_sq = <<>>,
               !.turn = "white",
               !.hud_hint = "Thinking...",
               !.moved = c.moved + 1,
               !.reply = [on |-> make_move(c.board, mv), mv |-> r.mv],
               !.movers = IF r.mv # <<>> THEN <<"black", "white">>
                          ELSE IF c.movers = <<>> THEN <<"white">>
                          ELSE <<"white", c.movers[1]>>] :
        r \in computer_reply(make_move(c.board, mv),
                             c.difficulty)}

\* the branch of SHOULDER_RIGHT or CONFIRM placing without `if mv in legal`
confirmed_unchecked(c) ==
    IF ~c.selecting
    THEN LET p == Cell(c.board, c.selx, c.sely)
         IN IF p # "." /\ (\/ c.turn = "white" /\ is_white(p)
                           \/ c.turn = "black" /\ is_black(p))
            THEN {[c EXCEPT !.selecting = TRUE,
                            !.selected_sq = <<c.selx, c.sely>>]}
            ELSE {[c EXCEPT !.hud_hint = "Invalid"]}
    ELSE placed(c, <<c.selected_sq, <<c.selx, c.sely>> >>)

\* the branch of SHOULDER_RIGHT or CONFIRM
confirmed(c) ==
    IF ~c.selecting
    THEN LET p == Cell(c.board, c.selx, c.sely)
         IN IF p # "." /\ (\/ c.turn = "white" /\ is_white(p)
                           \/ c.turn = "black" /\ is_black(p))
            THEN {[c EXCEPT !.selecting = TRUE,
                            !.selected_sq = <<c.selx, c.sely>>]}
            ELSE {[c EXCEPT !.hud_hint = "Invalid"]}
    ELSE LET mv == <<c.selected_sq, <<c.selx, c.sely>> >>
         IN IF mv \in SeqRange(c.leg)
            THEN placed(c, mv)
            ELSE {[c EXCEPT !.selecting = FALSE,
                            !.selected_sq = <<>>,
                            !.hud_hint = "Bad move"]}

\* the if/elif chain on the event
handled(c, ev) ==
    IF ev = "LEFT" THEN {[c EXCEPT !.selx = Max(0, c.selx - 1)]}
    ELSE IF ev = "RIGHT" THEN {[c EXCEPT !.selx = Min(7, c.selx + 1)]}
    ELSE IF ev = "UP" THEN {[c EXCEPT !.sely = Max(0, c.sely - 1)]}
    ELSE IF ev = "DOWN" THEN {[c EXCEPT !.sely = Min(7, c.sely + 1)]}
    ELSE IF ev = "SHOULDER_LEFT"
    THEN {[c EXCEPT !.selecting = FALSE, !.selected_sq = <<>>]}
    ELSE IF ev = "SHOULDER_RIGHT" \/ ev = "CONFIRM" THEN confirmed(c)
    ELSE {c}

\* `# check endgame`: c0 is the state before the iteration; legal_moves is
\* computed anew when the board or the turn changed.  The Checkmate or
\* Stalemate screen waits for CONFIRM and returns
endgame(c0, c) ==
    {IF leg # <<>> THEN [c EXCEPT !.leg = leg]
     ELSE [c EXCEPT !.leg = leg,
                    !.screen = IF in_check(c.board, c.turn)
                               THEN "Checkmate" ELSE "Stalemate",
                    !.pc = "returned"] :
       leg \in {IF c.board = c0.board /\ c.turn = c0.turn THEN c0.leg
                ELSE legal_moves(c.board, c.turn)}}

\* the events followed in the main loop: a pick/place event on a square of
\* ConfirmSquares, and a place event while moves remain to be followed
FollowedEvents(c) ==
    IF /\ <<c.selx, c.sely>> \in ConfirmSquares
       /\ c.selecting => c.moved < MaxMovesFor(c.difficulty)
    THEN ChessEvents
    ELSE ChessEvents \ {"SHOULDER_RIGHT", "CONFIRM"}

\* one iteration of the main loop
ChessLoop ==
    /\ chess # <<>>
    /\ chess.pc = "loop"
    /\ \E ev \in FollowedEvents(chess) :
         \E c1 \in handled([chess EXCEPT !.hud_hint = "", !.reply = <<>>],
                            ev) :
           chess' \in endgame(chess, c1)
    /\ UNCHANGED <<engine, volfied, snake>>

InitGame ==
    /\ EngineIdle
    /\ volfied = <<>>
    /\ snake = <<>>
    /\ chess = ChessStart

NextGame == ChessPrePlay \/ ChessLoop

SpecGame == InitGame /\ [][NextGame]_vars

\* the game is in its main loop or has left it
InGame == chess # <<>> /\ chess.pc \in {"loop", "returned"}

\* C23: whenever a move has been applied and the side then to move has no
\* legal moves, the loop shows Checkmate (side in check) or Stalemate (side
\* not in check) and applies no further move; in particular when the
\* human's move leaves Black without any legal move.
NoLegalMovesEndsGame ==
    (InGame /\ chess.hud_hint = "Thinking...") =>
      LET side == Enemy(chess.movers[1])
      IN legal_moves(chess.board, side) = <<>> =>
           /\ chess.pc = "returned"
           /\ chess.screen = IF in_check(chess.board, side)
                             THEN "Checkmate" ELSE "Stalemate"

\* the candidate move of the human: (selected square, cursor square)
Candidate == <<chess.selected_sq, <<chess.selx, chess.sely>> >>

\* C24: a human candidate move (selected square, cursor square) changes the
\* board only if it is a member of legal_moves(board, side to move); a
\* candidate that is not a member leaves the board and the side to move
\* unchanged and clears the selection; cursor movement, selection and cancel
\* events never change the board.
OnlyLegalCandidateChangesBoard ==
    [][(chess # <<>> /\ chess.pc = "loop") =>
         /\ chess'.board # chess.board =>
              /\ chess.selecting
              /\ chess'.selx = chess.selx /\ chess'.sely = chess.sely
              /\ Candidate \in SeqRange(legal_moves(chess.board, chess.turn))
         /\ (/\ chess.selecting /\ ~chess'.selecting
             /\ chess'.selx = chess.selx /\ chess'.sely = chess.sely
             /\ chess'.hud_hint # ""
             /\ Candidate
                  \notin SeqRange(legal_moves(chess.board, chess.turn))) =>
              /\ chess'.board = chess.board
              /\ chess'.turn = chess.turn
              /\ chess'.selected_sq = <<>>
              /\ chess'.hud_hint = "Bad move"]_vars

\* after a first move and its reply, a candidate that is not legal was
\* refused: the selection is cleared and the game goes on
CandidateRefused ==
    /\ InGame
    /\ chess.hud_hint = "Bad move"
    /\ chess.moved >= 1
    /\ ~chess.selecting
    /\ chess.turn = "white"
    /\ chess.pc = "loop"

\* C25: on every board reached in the game from the initial position by
\* moves applied in the game loop (human moves accepted by the legality
\* check and computer replies), each side has at most one king.
AtMostOneKingPerSide ==
    InGame => (Count(chess.board, "K") <= 1 /\ Count(chess.board, "k") <= 1)

\* the computer replied to the human's second move with a move of the king
KingMovedInReply ==
    /\ InGame
    /\ chess.moved >= 2
    /\ chess.reply # <<>>
    /\ chess.reply.mv # <<>>
    /\ Cell(chess.reply.on, chess.reply.mv[1][1], chess.reply.mv[1][2]) = "k"
    /\ Count(chess.board, "k") = 1

\* C26: moves strictly alternate: after every committed human (White) move
\* exactly one Black move, itself a member of legal_moves(board, Black) at
\* that point, is applied before White can move again; White never makes two
\* board-changing moves in a row, in any difficulty.
MovesAlternate ==
    InGame =>
      /\ chess.movers # <<"white", "white">>
      /\ (chess.pc = "loop" /\ chess.movers # <<>>) =>
           chess.movers[1] = "black"
      /\ (chess.reply # <<>> /\ chess.reply.mv # <<>>) =>
           chess.reply.mv \in SeqRange(legal_moves(chess.reply.on, "black"))

\* C27: a king is never captured during a game: every board reached in the
\* game loop from the initial position holds exactly one white king and
\* exactly one black king.
BothKingsOnEveryBoard ==
    InGame => (Count(chess.board, "K") = 1 /\ Count(chess.board, "k") = 1)
====
